---- MODULE Spec2Model ----
(***************************************************************************)
(* Trybook (src/main.go): the persistent store of notebooks and their      *)
(* entries, the append of an entry, the /run dispatcher and the page       *)
(* script that drives it.                                                   *)
(*                                                                         *)
(* Text is a sequence of one-character strings, so that trimming, case     *)
(* folding, prefix and substring tests are computed as the code computes   *)
(* them.                                                                    *)
(***************************************************************************)
EXTENDS Integers, Sequences, FiniteSets, TLC

VARIABLES
    notebooks,  \* table notebooks: a set of rows
    entries,    \* table notebook_entries: a set of rows
    app,        \* appendNotebookEntry calls in progress, per caller
    ncalls,     \* per notebook id: appendNotebookEntry calls begun so far
    run,        \* runHandler invocations, per request
    page,       \* the script of the notebook page with a pending entry
    clones,     \* table clones: a set of rows
    disk,       \* the clone directories and the worktrees under the base
    call        \* tryHandler invocations, per request

\* What tryHandler works on besides the notebooks.
tryVars == <<clones, disk, call>>

vars == <<notebooks, entries, app, ncalls, run, page, clones, disk, call>>

-----------------------------------------------------------------------------
(* Bounds                                                                  *)

\* Entries per notebook the model lets the callers append.
MaxEntries == 3

\* Concurrent callers of appendNotebookEntry (one per inbound connection).
Appenders == {"a1", "a2"}

\* Notebook ids of the rows present in table notebooks (genNotebookID yields
\* hex text; two short ids stand for them).
NbIds == {<<"a", "1">>, <<"b", "2">>}

\* Prompt texts (already trimmed and non-empty: promptHandler rejects the rest).
Prompts == {"p", "q"}

\* tryHandler requests, in the order of their arrival.
TryCalls == {1, 2}

\* Notebook ids genNotebookID yields for the notebooks /try creates.
NewIds == {<<"c", "3">>, <<"d", "4">>}

\* Writes of its output one process makes before it exits.
MaxChunks == 2

\* /run requests (one serving task each), numbered in order of arrival.
Runs == {1, 2, 3}

\* The requests an arbitrary client sends.
FreeRuns == {1, 2}

-----------------------------------------------------------------------------
(* Text: package strings and strconv, on sequences of characters           *)

Empty == <<>>

Whitespace == {" ", "\n", "\t", "\r"}

Digits == {"0", "1", "2", "3", "4", "5", "6", "7", "8", "9"}

LowerLetters == {"a", "b", "c", "d", "e", "f", "g", "h", "i", "j", "k", "l",
                 "m", "n", "o", "p", "q", "r", "s", "t", "u", "v", "w", "x",
                 "y", "z"}

UpperToLower ==
    [c \in {"A", "B", "C", "D", "E", "F", "G", "H", "I", "J", "K", "L", "M",
            "N", "O", "P", "Q", "R", "S", "T", "U", "V", "W", "X", "Y", "Z"} |->
        CASE c = "A" -> "a" [] c = "B" -> "b" [] c = "C" -> "c" [] c = "D" -> "d"
          [] c = "E" -> "e" [] c = "F" -> "f" [] c = "G" -> "g" [] c = "H" -> "h"
          [] c = "I" -> "i" [] c = "J" -> "j" [] c = "K" -> "k" [] c = "L" -> "l"
          [] c = "M" -> "m" [] c = "N" -> "n" [] c = "O" -> "o" [] c = "P" -> "p"
          [] c = "Q" -> "q" [] c = "R" -> "r" [] c = "S" -> "s" [] c = "T" -> "t"
          [] c = "U" -> "u" [] c = "V" -> "v" [] c = "W" -> "w" [] c = "X" -> "x"
          [] c = "Y" -> "y" [] c = "Z" -> "z"]

\* A ToLower that folds nothing.
ToLowerIdentity(s) == s

\* strings.ToLower
ToLower(s) ==
    [i \in 1 .. Len(s) |->
        IF s[i] \in DOMAIN UpperToLower THEN UpperToLower[s[i]] ELSE s[i]]

RECURSIVE TrimLeft(_)
TrimLeft(s) ==
    IF s # Empty /\ Head(s) \in Whitespace THEN TrimLeft(Tail(s)) ELSE s

RECURSIVE TrimRight(_)
TrimRight(s) ==
    IF s # Empty /\ s[Len(s)] \in Whitespace
    THEN TrimRight(SubSeq(s, 1, Len(s) - 1))
    ELSE s

\* strings.TrimSpace
TrimSpace(s) == TrimRight(TrimLeft(s))

\* A HasPrefix that demands equality.
HasPrefixExact(s, prefix) == s = prefix

\* strings.HasPrefix
HasPrefix(s, prefix) ==
    Len(s) >= Len(prefix) /\ SubSeq(s, 1, Len(prefix)) = prefix

\* String.prototype.indexOf(sub) >= 0 of the page script
Contains(s, sub) ==
    \E i \in 1 .. (Len(s) - Len(sub) + 1) : SubSeq(s, i, i + Len(sub) - 1) = sub

RECURSIVE DigitsValue(_)
DigitsValue(s) ==
    IF s = Empty THEN 0
    ELSE 10 * DigitsValue(SubSeq(s, 1, Len(s) - 1))
         + (CHOOSE d \in 0 .. 9 : ToString(d) = s[Len(s)])

AtoiBody(s) == IF s # Empty /\ s[1] \in {"+", "-"} THEN Tail(s) ELSE s

\* strconv.Atoi: err == nil
AtoiOk(s) ==
    /\ AtoiBody(s) # Empty
    /\ \A i \in 1 .. Len(AtoiBody(s)) : AtoiBody(s)[i] \in Digits

\* strconv.Atoi: the value
Atoi(s) ==
    IF s # Empty /\ s[1] = "-" THEN 0 - DigitsValue(AtoiBody(s))
    ELSE DigitsValue(AtoiBody(s))

\* isSafeToken
isSafeToken(s) ==
    /\ s # Empty
    /\ \A i \in 1 .. Len(s) :
          \/ s[i] \in {"-", "_", "."}
          \/ s[i] \in LowerLetters
          \/ s[i] \in DOMAIN UpperToLower
          \/ s[i] \in Digits

T_edit == <<"e", "d", "i", "t">>

T_question == <<"q", "u", "e", "s", "t", "i", "o", "n">>

-----------------------------------------------------------------------------
(* parseRepoInput: the org and repo of the text the user typed             *)

\* The position of the first occurrence of character c in s, 0 if none.
IndexByte(s, c) ==
    IF \E i \in 1 .. Len(s) : s[i] = c
    THEN CHOOSE i \in 1 .. Len(s) : s[i] = c /\ \A j \in 1 .. (i - 1) : s[j] # c
    ELSE 0

\* The position of the last occurrence of character c in s, 0 if none.
LastIndexByte(s, c) ==
    IF \E i \in 1 .. Len(s) : s[i] = c
    THEN CHOOSE i \in 1 .. Len(s) :
             s[i] = c /\ \A j \in (i + 1) .. Len(s) : s[j] # c
    ELSE 0

\* strings.Cut(s, c), the part before the separator (all of s if none).
CutBefore(s, c) ==
    IF IndexByte(s, c) = 0 THEN s ELSE SubSeq(s, 1, IndexByte(s, c) - 1)

\* strings.Split(s, c): the parts between the separators, empty parts kept.
RECURSIVE Split(_, _)
Split(s, c) ==
    IF IndexByte(s, c) = 0 THEN <<s>>
    ELSE <<SubSeq(s, 1, IndexByte(s, c) - 1)>>
             \o Split(SubSeq(s, IndexByte(s, c) + 1, Len(s)), c)

\* A trim that leaves the text as it is.
TrimByteNone(s, c) == s

\* strings.Trim(s, c): without the leading and trailing characters c.
RECURSIVE TrimByte(_, _)
TrimByte(s, c) ==
    IF s = Empty THEN s
    ELSE IF s[1] = c THEN TrimByte(Tail(s), c)
    ELSE IF s[Len(s)] = c THEN TrimByte(SubSeq(s, 1, Len(s) - 1), c)
    ELSE s

\* strings.TrimSuffix
TrimSuffix(s, suffix) ==
    IF Len(s) >= Len(suffix)
         /\ SubSeq(s, Len(s) - Len(suffix) + 1, Len(s)) = suffix
    THEN SubSeq(s, 1, Len(s) - Len(suffix))
    ELSE s

T_http == <<"h", "t", "t", "p", ":", "/", "/">>

T_https == <<"h", "t", "t", "p", "s", ":", "/", "/">>

T_githubHost == <<"g", "i", "t", "h", "u", "b", ".", "c", "o", "m">>

T_dotGit == <<".", "g", "i", "t">>

\* The characters url.Parse accepts unescaped in a host name.
HostChars ==
    LowerLetters \cup DOMAIN UpperToLower \cup Digits
        \cup {"-", "_", ".", "~", "!", "$", "&", "'", "(", ")", "*", "+", ",",
              ";", "=", ":", "[", "]", "<", ">", "\""}

\* url.Parse of a text that starts with http:// or https://, as far as
\* parseRepoInput reads its result: the fragment and the query are cut off,
\* the authority runs up to the first slash, the host is what follows the
\* last @ of the authority (with its port), the rest is the path. The parse
\* fails on a character that has no place in a host name and on a port that
\* is no number. (Percent escapes are not interpreted: the texts the model
\* parses have none.)
urlParse(s) ==
    LET noFrag == CutBefore(s, "#")
        noQuery == CutBefore(noFrag, "?")
        rest == SubSeq(noQuery, IndexByte(noQuery, ":") + 3, Len(noQuery))
        authority == CutBefore(rest, "/")
        path == SubSeq(rest, Len(authority) + 1, Len(rest))
        host == SubSeq(authority, LastIndexByte(authority, "@") + 1,
                       Len(authority))
        port == IF LastIndexByte(host, ":") = 0 THEN Empty
                ELSE SubSeq(host, LastIndexByte(host, ":") + 1, Len(host))
    IN  [ok |-> /\ \A i \in 1 .. Len(host) : host[i] \in HostChars
                /\ \A i \in 1 .. Len(port) : port[i] \in Digits
                /\ \A i \in 1 .. Len(s) : s[i] \notin {"\n", "\t", "\r"},
         Host |-> host,
         Path |-> path]

\* What parseRepoInput returns: the error text ("" for nil), org and repo.
ParseError(msg) == [err |-> msg, org |-> Empty, repo |-> Empty]

\* A result that is returned without the check of the two tokens.
ParseResultUnchecked(org, repo) == [err |-> "", org |-> org, repo |-> repo]

ParseResult(org, repo) ==
    IF ~isSafeToken(org) \/ ~isSafeToken(repo)
    THEN ParseError("invalid org or repo")
    ELSE [err |-> "", org |-> org, repo |-> repo]

\* A parser that takes the two parts without checking them.
parseRepoInputUnchecked(input) ==
    LET parts == Split(TrimSpace(input), "/")
    IN  IF Len(parts) < 2 THEN ParseError("empty input")
        ELSE [err |-> "", org |-> parts[1], repo |-> parts[2]]

parseRepoInput(input) ==
    LET s == TrimSpace(input)
        u == urlParse(s)
        urlParts == Split(TrimByte(u.Path, "/"), "/")
        parts == Split(s, "/")
    IN  IF s = Empty THEN ParseError("empty input")
        ELSE IF HasPrefix(s, T_http) \/ HasPrefix(s, T_https)
        THEN IF ~u.ok THEN ParseError("invalid URL")
             ELSE IF ToLower(u.Host) # T_githubHost
             THEN ParseError("only github.com is supported")
             ELSE IF Len(urlParts) < 2
             THEN ParseError("URL must be like https://github.com/org/repo")
             ELSE ParseResult(urlParts[1], TrimSuffix(urlParts[2], T_dotGit))
        ELSE IF Len(parts) # 2
        THEN ParseError("input must be org/repo or a full GitHub URL")
        ELSE ParseResult(TrimSpace(parts[1]), TrimSpace(parts[2]))

-----------------------------------------------------------------------------
(* Paths: a path is the sequence of its components                         *)

\* The value of flag -dir: the base directory of the data.
appDir == <<<<"h", "o", "m", "e">>, <<".", "t", "r", "y", "b", "o", "o", "k">>>>

T_clone == <<"c", "l", "o", "n", "e">>

T_worktree == <<"w", "o", "r", "k", "t", "r", "e", "e">>

T_dot == <<".">>

T_dotdot == <<".", ".">>

\* filepath.Clean, component by component: empty and "." components are
\* dropped, ".." removes the component before it (at the root it is dropped).
RECURSIVE CleanParts(_, _)
CleanParts(done, rest) ==
    IF rest = <<>> THEN done
    ELSE IF Head(rest) = Empty \/ Head(rest) = T_dot
    THEN CleanParts(done, Tail(rest))
    ELSE IF Head(rest) = T_dotdot
    THEN CleanParts(IF done = <<>> THEN done
                    ELSE SubSeq(done, 1, Len(done) - 1), Tail(rest))
    ELSE CleanParts(Append(done, Head(rest)), Tail(rest))

\* filepath.Join of the components of an absolute path.
Join(parts) == CleanParts(<<>>, parts)

cloneBaseDir == Join(appDir \o <<T_clone>>)

worktreeBaseDir == Join(appDir \o <<T_worktree>>)

repoDirPath(org, repo) == Join(cloneBaseDir \o <<org, repo>>)

\* A working directory that is the clone of the repository.
worktreeDirInClone(org, repo, name) == repoDirPath(org, repo)

worktreeDirPath(org, repo, name) == Join(worktreeBaseDir \o <<org, repo, name>>)

-----------------------------------------------------------------------------
(* The store                                                               *)

\* A row of table notebooks.
NotebookRow(id) ==
    [id |-> id, org |-> <<"o">>, repo |-> <<"r">>,
     branch |-> <<"n", "b", "-">> \o id, worktree |-> <<"n", "b", "-">> \o id,
     commit_sha |-> <<"c", "0">>]

\* A fresh row of notebook_entries: the columns the INSERT names, the others
\* at their DEFAULT ''.
EntryRow(nb, idx, prompt) ==
    [notebook_id |-> nb, idx |-> idx, prompt |-> prompt,
     output |-> Empty, output_claude |-> Empty, intent |-> Empty]

EntriesOf(nb) == {e \in entries : e.notebook_id = nb}

SetMax(S) == CHOOSE m \in S : \A x \in S : x <= m

\* SELECT COALESCE(MAX(idx), 0) + 1: the first index would be 1.
NextIdxFromOne(nb) ==
    IF EntriesOf(nb) = {} THEN 1
    ELSE SetMax({e.idx : e \in EntriesOf(nb)}) + 1

\* SELECT COALESCE(MAX(idx), -1) + 1 FROM notebook_entries WHERE notebook_id = ?
NextIdx(nb) ==
    IF EntriesOf(nb) = {} THEN 0
    ELSE SetMax({e.idx : e \in EntriesOf(nb)}) + 1

\* A table without its primary key: every INSERT is accepted.
NoPrimaryKey(nb, idx) == FALSE

\* PRIMARY KEY (notebook_id, idx): an INSERT of a taken pair fails.
PrimaryKeyConflict(nb, idx) ==
    \E e \in entries : e.notebook_id = nb /\ e.idx = idx

\* The connection string asks for foreign keys with "_fk=1", a parameter the
\* driver in use (modernc.org/sqlite, opened as "sqlite") does not know: it
\* takes pragmas as "_pragma=foreign_keys(1)". SQLite's default stays, and
\* the default is not to enforce foreign keys.
ForeignKeysOn == FALSE

\* FOREIGN KEY (notebook_id) REFERENCES notebooks(id): an INSERT for a
\* notebook that does not exist fails, when foreign keys are enforced.
ForeignKeyViolation(nb) ==
    ForeignKeysOn /\ ~\E n \in notebooks : n.id = nb

-----------------------------------------------------------------------------
(* appendNotebookEntry: two statements, no transaction around them         *)

AppIdle == [pc |-> "idle", nb |-> Empty, prompt |-> "", next |-> -1,
            ret |-> -1, err |-> FALSE, rejected |-> FALSE]

\* The call begins and runs its SELECT.
AppendRead(p, nb, prompt) ==
    /\ app[p].pc = "idle"
    /\ Cardinality(EntriesOf(nb)) < MaxEntries
    /\ app' = [app EXCEPT ![p] = [pc |-> "read", nb |-> nb, prompt |-> prompt,
                                  next |-> NextIdx(nb), ret |-> -1,
                                  err |-> FALSE, rejected |-> FALSE]]
    /\ ncalls' = [ncalls EXCEPT ![nb] = @ + 1]
    /\ UNCHANGED <<notebooks, entries>>

\* A handler that appends whatever it is sent.
PromptRequestUnchecked(p, nbRaw, promptRaw) ==
    AppendRead(p, TrimSpace(nbRaw), TrimSpace(promptRaw))

\* promptHandler up to the SELECT of appendNotebookEntry: a notebook id that
\* is no safe token is answered with a redirect to /, an empty prompt with
\* the page and a message; nothing is appended for either.
PromptRequest(p, nbRaw, promptRaw) ==
    IF ~isSafeToken(TrimSpace(nbRaw)) \/ TrimSpace(promptRaw) = Empty
    THEN /\ app[p].pc = "idle"
         /\ app' = [app EXCEPT ![p] = [AppIdle EXCEPT
                        !.pc = "done", !.nb = TrimSpace(nbRaw),
                        !.prompt = TrimSpace(promptRaw), !.rejected = TRUE]]
         /\ UNCHANGED <<notebooks, entries, ncalls>>
    ELSE AppendRead(p, TrimSpace(nbRaw), TrimSpace(promptRaw))

\* An INSERT that replaces the row that holds the index.
AppendInsertReplace(p) ==
    /\ app[p].pc = "read"
    /\ entries' = {e \in entries : e.notebook_id # app[p].nb
                                    \/ e.idx # app[p].next}
                      \cup {EntryRow(app[p].nb, app[p].next, app[p].prompt)}
    /\ app' = [app EXCEPT ![p].pc = "done", ![p].ret = app[p].next]
    /\ UNCHANGED <<notebooks, ncalls>>

\* The INSERT, and the return of the call.
AppendInsert(p) ==
    /\ app[p].pc = "read"
    /\ IF \/ PrimaryKeyConflict(app[p].nb, app[p].next)
          \/ ForeignKeyViolation(app[p].nb)
       THEN /\ app' = [app EXCEPT ![p].pc = "done", ![p].ret = -1,
                                  ![p].err = TRUE]
            /\ UNCHANGED entries
       ELSE /\ entries' = entries \cup
                  {EntryRow(app[p].nb, app[p].next, app[p].prompt)}
            /\ app' = [app EXCEPT ![p].pc = "done", ![p].ret = app[p].next]
    /\ UNCHANGED <<notebooks, ncalls>>

\* promptHandler has answered; the caller may send another prompt.
AppendReturn(p) ==
    /\ app[p].pc = "done"
    /\ app' = [app EXCEPT ![p] = AppIdle]
    /\ UNCHANGED <<notebooks, entries, ncalls>>

\* No appendNotebookEntry call is between its SELECT and its return.
NoAppendInProgress == \A p \in Appenders : app[p].pc = "idle"

-----------------------------------------------------------------------------
(* The store's updates                                                     *)

T_gemini == <<"g", "e", "m", "i", "n", "i">>

T_claude == <<"c", "l", "a", "u", "d", "e">>

T_router == <<"r", "o", "u", "t", "e", "r">>

T_aider == <<"a", "i", "d", "e", "r">>

\* The closed set of models runHandler accepts.
Models == {T_gemini, T_claude, T_router, T_aider}

\* The models that are real agents: every model but the router.
Agents == {T_gemini, T_claude, T_aider}

\* An UPDATE whose WHERE clause names the notebook only.
UpdateEntryAll(rows, nb, idx, col, val) ==
    {IF e.notebook_id = nb THEN [e EXCEPT ![col] = val] ELSE e : e \in rows}

\* UPDATE notebook_entries SET <col> = ? WHERE notebook_id = ? AND idx = ?
UpdateEntry(rows, nb, idx, col, val) ==
    {IF e.notebook_id = nb /\ e.idx = idx THEN [e EXCEPT ![col] = val] ELSE e :
        e \in rows}

\* The column choice of the older setNotebookEntryOutput: always output.
OutputColumnLegacy(model) == "output"

\* A column choice that stores the output where the prompt is kept.
OutputColumnPrompt(model) == "prompt"

\* A column choice that stores the output where the notebook id is kept.
OutputColumnNotebook(model) == "notebook_id"

\* A column choice that stores the output where the intent is kept.
OutputColumnIntent(model) == "intent"

\* setNotebookEntryOutputForModel: the column the model's output goes to.
OutputColumn(model) ==
    IF ToLower(model) = T_claude THEN "output_claude" ELSE "output"

\* setNotebookEntryOutputForModel: the table after the UPDATE.
setNotebookEntryOutputForModel(rows, nb, idx, model, out) ==
    UpdateEntry(rows, nb, idx, OutputColumn(model), out)

\* setNotebookEntryIntent: the table after the UPDATE.
setNotebookEntryIntent(rows, nb, idx, intent) ==
    LET norm == ToLower(TrimSpace(intent))
    IN  UpdateEntry(rows, nb, idx, "intent",
                    IF norm # T_edit /\ norm # T_question THEN Empty ELSE norm)

\* A store that runs the statement whatever the state of the context.
ExecIgnoringContext(ctxDone, rows, updated) == updated

\* db.ExecContext(r.Context(), ...): with the request's context already
\* cancelled the statement is not run and the error is returned (the callers
\* in runHandler drop it).
ExecContext(ctxDone, rows, updated) == IF ctxDone THEN rows ELSE updated

-----------------------------------------------------------------------------
(* runHandler: one /run request, one external process                      *)

\* "Starting <model>...\n\n"
Banner(model) ==
    <<"S", "t", "a", "r", "t", "i", "n", "g", " ">> \o model
        \o <<".", ".", ".", "\n", "\n">>

\* "error: failed to start <model>: <err>\n"
StartErrMarker(model, err) ==
    <<"e", "r", "r", "o", "r", ":", " ", "f", "a", "i", "l", "e", "d", " ",
      "t", "o", " ", "s", "t", "a", "r", "t", " ">> \o model \o <<":", " ">>
        \o err \o <<"\n">>

\* "\n[<model> exited with error: <err>]\n"
ExitErrMarker(model, err) ==
    <<"\n", "[">> \o model
        \o <<" ", "e", "x", "i", "t", "e", "d", " ", "w", "i", "t", "h", " ",
             "e", "r", "r", "o", "r", ":", " ">> \o err \o <<"]", "\n">>

\* "\n[done]\n"
DoneMarker == <<"\n", "[", "d", "o", "n", "e", "]", "\n">>

\* The executable of each model's command.
BinaryName(model) == IF model = T_router THEN <<"l", "l", "m">> ELSE model

\* err.Error() of cmd.Start: the context was cancelled, or the binary is missing.
StartErrText(ctxDone, model) ==
    IF ctxDone
    THEN <<"c", "o", "n", "t", "e", "x", "t", " ", "c", "a", "n", "c", "e",
           "l", "e", "d">>
    ELSE <<"e", "x", "e", "c", ":", " ", "\"">> \o BinaryName(model)
           \o <<"\"", ":", " ", "e", "x", "e", "c", "u", "t", "a", "b", "l",
                "e", " ", "f", "i", "l", "e", " ", "n", "o", "t", " ", "f",
                "o", "u", "n", "d", " ", "i", "n", " ", "$", "P", "A", "T",
                "H">>

\* err.Error() of cmd.Wait: a non-zero exit status, or the kill that follows
\* the cancellation of the context.
WaitErrText(exit) ==
    IF exit = "killed"
    THEN <<"s", "i", "g", "n", "a", "l", ":", " ", "k", "i", "l", "l", "e",
           "d">>
    ELSE <<"e", "x", "i", "t", " ", "s", "t", "a", "t", "u", "s", " ", "1">>

\* The router's decision, computed from the accumulated output.
ClassifyIntent(buf) ==
    LET s == ToLower(TrimSpace(buf))
    IN  IF s = T_edit \/ HasPrefix(s, T_edit) THEN T_edit
        ELSE IF s = T_question \/ HasPrefix(s, T_question) THEN T_question
        ELSE Empty

RunIdle == [pc |-> "idle", status |-> 0, nb |-> Empty, idx |-> -1,
            model |-> Empty, buf |-> Empty, w |-> <<>>, ctxDone |-> FALSE,
            exit |-> "none", intent |-> Empty, spawned |-> 0, dir |-> <<>>,
            req |-> <<>>, pending |-> Empty, queries |-> 0]

\* http.Error(w, ..., code): the request is answered, nothing else happens.
Rejected(code) == [RunIdle EXCEPT !.pc = "done", !.status = code]

\* loadNotebook(r.Context(), nbID) finds the notebook row.
NotebookFound(nbID) == \E n \in notebooks : n.id = nbID

\* A prompt query that finds a row whatever the index.
PromptAlwaysFound(nbID, idx) == TRUE

\* SELECT prompt FROM notebook_entries WHERE notebook_id = ? AND idx = ?
\* finds a row.
PromptFound(nbID, idx) ==
    \E e \in entries : e.notebook_id = nbID /\ e.idx = idx

\* The entry struct loadNotebook fills from a row: the index is scanned and
\* dropped.
EntryOf(row) ==
    [Prompt |-> row.prompt, Output |-> row.output,
     OutputClaude |-> row.output_claude, Intent |-> row.intent]

\* The rows in the order ORDER BY idx DESC would give them.
RECURSIVE OrderByIdxDesc(_)
OrderByIdxDesc(rows) ==
    IF rows = {} THEN <<>>
    ELSE LET first == CHOOSE e \in rows : \A x \in rows : x.idx <= e.idx
         IN  <<first>> \o OrderByIdxDesc(rows \ {first})

\* ORDER BY idx ASC: the rows, the smallest index first.
RECURSIVE OrderByIdx(_)
OrderByIdx(rows) ==
    IF rows = {} THEN <<>>
    ELSE LET first == CHOOSE e \in rows : \A x \in rows : e.idx <= x.idx
         IN  <<first>> \o OrderByIdx(rows \ {first})

\* loadNotebook(ctx, id): the error of the first query when no notebook row
\* has the id, otherwise the row and the entries of the notebook in the
\* order of the second query.
loadNotebook(id) ==
    IF ~NotebookFound(id)
    THEN [err |-> TRUE, meta |-> <<>>, es |-> <<>>]
    ELSE LET ordered == OrderByIdx({e \in entries : e.notebook_id = id})
         IN  [err |-> FALSE,
              meta |-> CHOOSE n \in notebooks : n.id = id,
              es |-> [i \in 1..Len(ordered) |-> EntryOf(ordered[i])]]

\* A handler that takes any model name and looks for its binary.
AcceptedAnyModel(nbRaw, idxRaw, modelRaw) ==
    LET nbID == TrimSpace(nbRaw)
        idxStr == TrimSpace(idxRaw)
        model == TrimSpace(modelRaw)
        meta == CHOOSE n \in notebooks : n.id = nbID
    IN  IF ~AtoiOk(idxStr) \/ ~isSafeToken(nbID) THEN Rejected(400)
        ELSE IF ~NotebookFound(nbID)
             THEN [Rejected(404) EXCEPT !.queries = 1]
        ELSE IF ~PromptFound(nbID, Atoi(idxStr))
             THEN [Rejected(400) EXCEPT !.queries = 2]
        ELSE [RunIdle EXCEPT !.pc = "start", !.status = 200, !.nb = nbID,
                             !.idx = Atoi(idxStr), !.model = model,
                             !.queries = 2,
                             !.w = <<Banner(model)>>,
                             !.dir = worktreeDirPath(meta.org, meta.repo,
                                                     meta.worktree)]

\* Lines 1177-1223: the form values are read and checked, the notebook and the
\* prompt are loaded, the banner is written. The handler's state after it
\* (queries counts the reads of the store it has made: loadNotebook, then the
\* query of the prompt).
Accepted(nbRaw, idxRaw, modelRaw) ==
    LET nbID == TrimSpace(nbRaw)
        idxStr == TrimSpace(idxRaw)
        model == IF TrimSpace(modelRaw) = Empty THEN T_gemini
                 ELSE TrimSpace(modelRaw)
        meta == CHOOSE n \in notebooks : n.id = nbID
    IN  IF ~AtoiOk(idxStr) \/ ~isSafeToken(nbID) THEN Rejected(400)
        ELSE IF model \notin Models THEN Rejected(400)
        ELSE IF ~NotebookFound(nbID)
             THEN [Rejected(404) EXCEPT !.queries = 1]
        ELSE IF ~PromptFound(nbID, Atoi(idxStr))
             THEN [Rejected(400) EXCEPT !.queries = 2]
        ELSE [RunIdle EXCEPT !.pc = "start", !.status = 200, !.nb = nbID,
                             !.idx = Atoi(idxStr), !.model = model,
                             !.queries = 2,
                             !.w = <<Banner(model)>>,
                             !.dir = worktreeDirPath(meta.org, meta.repo,
                                                     meta.worktree)]

\* The handler's state after these lines, with the form values it was sent.
Received(nbRaw, idxRaw, modelRaw) ==
    [Accepted(nbRaw, idxRaw, modelRaw) EXCEPT
        !.req = <<nbRaw, idxRaw, modelRaw>>]

\* A /run request arrives and is served up to the banner.
Request(r, nbRaw, idxRaw, modelRaw) ==
    /\ run[r].pc = "idle"
    /\ \A q \in Runs : q < r => run[q].pc # "idle"
    /\ run' = [run EXCEPT ![r] = Received(nbRaw, idxRaw, modelRaw)]
    /\ UNCHANGED <<notebooks, entries>>

\* A dispatcher that starts the process again after it failed or was killed.
StartOkRetry(r) ==
    /\ \/ run[r].pc = "start"
       \/ run[r].pc = "waited" /\ run[r].exit \in {"status1", "killed"}
    /\ ~run[r].ctxDone \/ run[r].pc = "waited"
    /\ run[r].spawned < 2
    /\ run' = [run EXCEPT ![r].pc = "running", ![r].spawned = @ + 1,
                          ![r].exit = "none"]
    /\ UNCHANGED <<notebooks, entries>>

\* cmd.Start() succeeds: the process runs.
StartOk(r) ==
    /\ run[r].pc = "start"
    /\ ~run[r].ctxDone
    /\ run' = [run EXCEPT ![r].pc = "running", ![r].spawned = @ + 1]
    /\ UNCHANGED <<notebooks, entries>>

\* A handler that stores its buffer, which is empty, when the start fails.
StartFailStoring(r) ==
    /\ run[r].pc = "start"
    /\ run' = [run EXCEPT
          ![r].pc = "done",
          ![r].exit = "nostart",
          ![r].w = Append(@, StartErrMarker(run[r].model,
                               StartErrText(run[r].ctxDone, run[r].model)))]
    /\ entries' = setNotebookEntryOutputForModel(entries, run[r].nb,
                      run[r].idx, run[r].model, run[r].buf)
    /\ UNCHANGED notebooks

\* A handler that writes the marker of a failed start and goes on to wait.
StartFailGoOn(r) ==
    /\ run[r].pc = "start"
    /\ run' = [run EXCEPT
          ![r].pc = "waited",
          ![r].exit = "nostart",
          ![r].w = Append(@, StartErrMarker(run[r].model,
                               StartErrText(run[r].ctxDone, run[r].model)))]
    /\ UNCHANGED <<notebooks, entries>>

\* cmd.Start() fails (the binary is missing, or the context is already
\* cancelled): the marker is written and the handler returns.
StartFail(r) ==
    /\ run[r].pc = "start"
    /\ run' = [run EXCEPT
          ![r].pc = "done",
          ![r].exit = "nostart",
          ![r].w = Append(@, StartErrMarker(run[r].model,
                               StartErrText(run[r].ctxDone, run[r].model)))]
    /\ UNCHANGED <<notebooks, entries>>

\* A handler that stores the accumulated output with every chunk, while the
\* process is running.
EmitPersisting(r, chunk) ==
    /\ run[r].pc = "running"
    /\ Len(run[r].w) - 1 < MaxChunks
    /\ run' = [run EXCEPT ![r].buf = @ \o chunk, ![r].w = Append(@, chunk)]
    /\ entries' = setNotebookEntryOutputForModel(entries, run[r].nb, run[r].idx,
                      run[r].model, run[r].buf \o chunk)
    /\ UNCHANGED notebooks

\* The process writes a chunk to stdout or stderr: io.MultiWriter hands it to
\* the buffer, then to the flushing response writer.
Emit(r, chunk) ==
    /\ run[r].pc = "running"
    /\ Len(run[r].w) - 1 < MaxChunks
    /\ run' = [run EXCEPT ![r].buf = @ \o chunk, ![r].w = Append(@, chunk)]
    /\ UNCHANGED <<notebooks, entries>>

\* A MultiWriter that has the response before the buffer.
WritersResponseFirst == <<"response", "buf">>

\* io.MultiWriter(&buf, fw): the writers, in the order they are written to.
Writers == <<"buf", "response">>

\* One writer of the MultiWriter takes the chunk.
WriteTo(h, writer, chunk) ==
    IF writer = "buf"
    THEN [h EXCEPT !.buf = @ \o chunk]
    ELSE [h EXCEPT !.w = Append(@, chunk)]

\* The process writes a chunk and the MultiWriter hands it to its first
\* writer.
EmitFirst(r, chunk) ==
    /\ run[r].pc = "running"
    /\ Len(run[r].w) - 1 < MaxChunks
    /\ run' = [run EXCEPT
          ![r] = [WriteTo(run[r], Writers[1], chunk) EXCEPT
                     !.pc = "writing", !.pending = chunk]]
    /\ UNCHANGED <<notebooks, entries>>

\* The MultiWriter hands the chunk to its second writer. The write to the
\* response of a client that has gone may fail; the process of a cancelled
\* request has been killed, and cmd.Wait() returns once the chunk is dealt
\* with.
EmitSecond(r, written) ==
    /\ run[r].pc = "writing"
    /\ ~written => run[r].ctxDone /\ Writers[2] = "response"
    /\ run' = [run EXCEPT
          ![r] = [(IF written
                   THEN WriteTo(run[r], Writers[2], run[r].pending)
                   ELSE run[r]) EXCEPT
                     !.pending = Empty,
                     !.pc = IF run[r].ctxDone THEN "waited" ELSE "running",
                     !.exit = IF run[r].ctxDone THEN "killed" ELSE @]]
    /\ UNCHANGED <<notebooks, entries>>

\* The client aborts the request while a chunk is on its way through the
\* MultiWriter.
CancelWriting(r) ==
    /\ run[r].pc = "writing"
    /\ ~run[r].ctxDone
    /\ run' = [run EXCEPT ![r].ctxDone = TRUE]
    /\ UNCHANGED <<notebooks, entries>>

\* The process exits on its own and cmd.Wait() returns.
Exit(r, exit) ==
    /\ run[r].pc = "running"
    /\ run' = [run EXCEPT ![r].pc = "waited", ![r].exit = exit]
    /\ UNCHANGED <<notebooks, entries>>

\* r.Context() is cancelled while the handler runs: a running process is
\* killed, so that cmd.Wait() returns the error. The handler's state after it.
Cancelled(h) ==
    IF h.pc \in {"start", "running", "waited"} /\ ~h.ctxDone
    THEN [h EXCEPT !.ctxDone = TRUE,
                   !.pc = IF h.pc = "running" THEN "waited" ELSE h.pc,
                   !.exit = IF h.pc = "running" THEN "killed" ELSE h.exit]
    ELSE h

\* The client aborts the request.
Cancel(r) ==
    /\ run[r].pc \in {"start", "running", "waited"}
    /\ ~run[r].ctxDone
    /\ run' = [run EXCEPT ![r] = Cancelled(run[r])]
    /\ UNCHANGED <<notebooks, entries>>

\* Lines 1289-1318, after cmd.Wait() has returned.
AfterWait(r) ==
    LET nb == run[r].nb
        idx == run[r].idx
        model == run[r].model
        buf == run[r].buf
        intent == ClassifyIntent(buf)
    IN  /\ run[r].pc = "waited"
        /\ IF run[r].exit # "ok"
           THEN /\ entries' = ExecContext(run[r].ctxDone, entries,
                       setNotebookEntryOutputForModel(entries, nb, idx, model,
                                                      buf))
                /\ run' = [run EXCEPT
                      ![r].pc = "done",
                      ![r].w = Append(@, ExitErrMarker(model,
                                           WaitErrText(run[r].exit)))]
           ELSE IF model = T_router
           THEN /\ entries' = ExecContext(run[r].ctxDone, entries,
                       setNotebookEntryIntent(entries, nb, idx, intent))
                /\ run' = [run EXCEPT ![r].pc = "done", ![r].intent = intent,
                                      ![r].w = Append(@, DoneMarker)]
           ELSE /\ entries' = ExecContext(run[r].ctxDone, entries,
                       setNotebookEntryOutputForModel(entries, nb, idx, model,
                                                      buf))
                /\ run' = [run EXCEPT ![r].pc = "done",
                                      ![r].w = Append(@, DoneMarker)]
        /\ UNCHANGED notebooks

-----------------------------------------------------------------------------
(* The script of the notebook page (repoPageTpl, when .HasPending)         *)

\* The script's variables when the page is loaded: nothing requested yet,
\* abortedAll = false, remaining = 0.
PageIdle == [pc |-> "init", abortedAll |-> FALSE, decision |-> Empty,
             remaining |-> 0, started |-> {}, settled |-> {}]

\* controllers[model]: the request the script makes for a model. The router's
\* comes first; aider's, or claude's and gemini's, follow it.
controllers(model) ==
    CASE model = T_router -> 1
      [] model = T_aider -> 2
      [] model = T_claude -> 2
      [] model = T_gemini -> 3

\* The text the reader of a response has accumulated: all the writes, in order.
RECURSIVE StreamText(_)
StreamText(w) == IF w = <<>> THEN Empty ELSE Head(w) \o StreamText(Tail(w))

\* The decision the script takes from the router's stream (lines 619-622).
RouterDecision(routerOut) ==
    LET s == ToLower(routerOut)
        bySubstring == IF Contains(s, T_edit) /\ ~Contains(s, T_question)
                       THEN T_edit ELSE T_question
    IN  IF TrimSpace(s) = T_edit THEN T_edit ELSE bySubstring

\* The models the script starts for a decision (lines 623-640).
ModelsFor(decision) ==
    IF decision = T_edit THEN {T_aider} ELSE {T_claude, T_gemini}

-----------------------------------------------------------------------------
(* tryHandler: clone the repository if needed, then create a notebook      *)

\* The texts the model's clients type into the form of /try.
TryInputs ==
    {<<"o", "/", "r">>,
     <<"o", " ", "/", " ", "r">>,
     <<"o", "/", "r", "/", "x">>,
     <<" ">>,
     <<"o", "/", "r", "?">>,
     <<"h", "t", "t", "p", "s", ":", "/", "/", "g", "i", "t", "h", "u", "b", ".", "c", "o", "m", "/", "p", "/", "q", ".", "g", "i", "t">>,
     <<"h", "t", "t", "p", ":", "/", "/", "g", "i", "t", "l", "a", "b", ".", "c", "o", "m", "/", "o", "/", "r">>,
     <<"h", "t", "t", "p", "s", ":", "/", "/", "g", "i", "t", "h", "u", "b", ".", "c", "o", "m", "/", "o">>}

\* Inputs whose parts are made of dots: org/repo, and four that name a parent
\* or the current directory.
PathInputs ==
    {<<"o", "/", "r">>,
     <<".", ".", "/", ".", ".">>,
     <<".", "/", ".">>,
     <<"o", "/", ".", ".">>,
     <<".", ".", "/", "w", "o", "r", "k", "t", "r", "e", "e">>}

\* The (org, repo) pairs parseRepoInput yields for these texts.
Repos ==
    {<<parseRepoInput(i).org, parseRepoInput(i).repo>> :
        i \in {j \in TryInputs \cup PathInputs : parseRepoInput(j).err = ""}}
        \cup {<<<<"o">>, <<"r">>>>}

ClonePaths == {repoDirPath(p[1], p[2]) : p \in Repos}

T_main == <<"m", "a", "i", "n">>

T_master == <<"m", "a", "s", "t", "e", "r">>

\* cloneRepo's attempts: the value of --branch, none for the last one.
CloneAttempts == <<T_main, T_master, Empty>>

\* The branch a clone without --branch checks out: the remote's default one.
T_dev == <<"d", "e", "v">>

\* The branch the clone of attempt i checks out.
BranchOfAttempt(i) ==
    IF CloneAttempts[i] = Empty THEN T_dev ELSE CloneAttempts[i]

\* The commit of the clones that exist when the server starts.
HeadCommit == <<"c", "0">>

\* The commits a clone can find at the remote.
Commits == {HeadCommit, <<"c", "1">>}

\* The branch and commit of a clone: what currentBranchAndCommit reads.
CloneHead(branch, sha) == [branch |-> branch, commit_sha |-> sha]

\* No clone, nothing to read.
NoHead == CloneHead(Empty, Empty)

\* "nb-" + id
WorktreeName(id) == <<"n", "b", "-">> \o id

\* A row of table clones.
CloneRow(org, repo, branch, sha) ==
    [org |-> org, repo |-> repo, branch |-> branch, commit_sha |-> sha]

\* An insert that leaves an existing row of the pair as it is.
InsertCloneOrIgnore(rows, row) ==
    IF \E c \in rows : c.org = row.org /\ c.repo = row.repo
    THEN rows ELSE rows \cup {row}

\* INSERT INTO clones ... ON CONFLICT(org, repo) DO UPDATE
UpsertClone(rows, row) ==
    {c \in rows : c.org # row.org \/ c.repo # row.repo} \cup {row}

\* pathExists(filepath.Join(dest, ".git")): git creates .git when a clone
\* begins, so the marker is there while the clone is being populated.
MarkerExists(dest) == disk.clone[dest] \in {"populating", "cloned"}

\* A check that never finds the marker.
MarkerNeverFound(dest) == FALSE

\* pathExists(filepath.Join(dest, ".git")) as ensureRepoCloned asks it.
MarkerFound(dest) == MarkerExists(dest)

CallIdle == [pc |-> "idle", input |-> Empty, org |-> Empty, repo |-> Empty,
             msg |-> "", attempt |-> 0, attempts |-> 0, removes |-> 0,
             cloned |-> 0, ensured |-> "none", id |-> Empty, branch |-> Empty,
             sha |-> Empty, failed |-> "none", location |-> Empty,
             recorded |-> {}, tried |-> <<>>, cloneErr |-> Empty]

\* The handler answers with the page and a message.
Answered(h, failed, msg) ==
    [h EXCEPT !.pc = "done", !.failed = failed, !.msg = msg]

\* Lines 987-995: the form value is read and parsed.
Parsed(input) ==
    LET p == parseRepoInput(TrimSpace(input))
    IN  IF p.err # ""
        THEN Answered([CallIdle EXCEPT !.input = input], "input", p.err)
        ELSE [CallIdle EXCEPT !.pc = "ensure", !.input = input,
                              !.org = p.org, !.repo = p.repo]

\* A /try request arrives and its input is parsed.
TryRequest(c, input) ==
    /\ call[c].pc = "idle"
    /\ \A q \in TryCalls : q < c => call[q].pc # "idle"
    /\ call' = [call EXCEPT ![c] = Parsed(input)]
    /\ UNCHANGED <<notebooks, entries, clones, disk>>

Dest(c) == repoDirPath(call[c].org, call[c].repo)

\* ensureRepoCloned: the marker is looked for; with it the call returns nil.
EnsureCheck(c) ==
    /\ call[c].pc = "ensure"
    /\ call' = [call EXCEPT
          ![c].pc = IF MarkerFound(Dest(c)) THEN "record" ELSE "remove",
          ![c].ensured = IF MarkerFound(Dest(c)) THEN "found" ELSE @]
    /\ UNCHANGED <<notebooks, entries, clones, disk>>

\* An ensureRepoCloned that goes on to cloneRepo with the path left in place.
EnsureRemoveKeeping(c) ==
    /\ call[c].pc = "remove"
    /\ call' = [call EXCEPT ![c].pc = "clone", ![c].attempt = 1]
    /\ UNCHANGED <<notebooks, entries, clones, disk>>

\* ensureRepoCloned: a path without the marker is removed; cloneRepo follows.
EnsureRemove(c) ==
    /\ call[c].pc = "remove"
    /\ disk' = [disk EXCEPT !.clone[Dest(c)] = "absent"]
    /\ call' = [call EXCEPT
          ![c].pc = "clone",
          ![c].attempt = 1,
          ![c].removes = IF disk.clone[Dest(c)] # "absent" THEN @ + 1 ELSE @]
    /\ UNCHANGED <<notebooks, entries, clones>>

\* What git clone prints when attempt i fails: the message names the branch
\* that was asked for.
CloneOutput(i) == <<"f", "a", "t", "a", "l", ":", " ">> \o CloneAttempts[i]

\* A cloneRepo that gives up at the first failed attempt.
AfterFailedAttemptGiveUp(h) ==
    Answered([h EXCEPT !.ensured = "failed",
                       !.cloneErr = CloneOutput(h.attempt)],
             "clone", "Clone failed")

\* cloneRepo after a failed attempt: the destination is removed, and the next
\* attempt follows or, after the last one, the error with the attempt's
\* output is returned and answered.
AfterFailedAttempt(h) ==
    IF h.attempt = Len(CloneAttempts)
    THEN Answered([h EXCEPT !.ensured = "failed",
                            !.cloneErr = CloneOutput(h.attempt)],
                  "clone", "Clone failed")
    ELSE [h EXCEPT !.pc = "clone", !.attempt = @ + 1]

\* git clone begins: it refuses a destination that exists, otherwise it
\* creates the destination and its .git.
CloneStart(c) ==
    /\ call[c].pc = "clone"
    /\ IF disk.clone[Dest(c)] # "absent"
       THEN /\ disk' = [disk EXCEPT !.clone[Dest(c)] = "absent"]
            /\ call' = [call EXCEPT
                  ![c] = AfterFailedAttempt(
                             [call[c] EXCEPT
                                 !.attempts = @ + 1,
                                 !.tried = Append(@, CloneAttempts[call[c].attempt])])]
       ELSE /\ disk' = [disk EXCEPT !.clone[Dest(c)] = "populating"]
            /\ call' = [call EXCEPT
                  ![c].pc = "cloning", ![c].attempts = @ + 1,
                  ![c].tried = Append(@, CloneAttempts[call[c].attempt])]
    /\ UNCHANGED <<notebooks, entries, clones>>

\* git clone ends: with success the clone is complete and cloneRepo returns
\* nil; with an error the destination is removed.
CloneFinish(c, ok) ==
    /\ call[c].pc = "cloning"
    /\ IF ok
       THEN /\ \E sha \in Commits :
                  disk' = [disk EXCEPT
                     !.clone[Dest(c)] = "cloned",
                     !.head[Dest(c)] =
                         CloneHead(BranchOfAttempt(call[c].attempt), sha)]
            /\ call' = [call EXCEPT ![c].pc = "record", ![c].ensured = "cloned",
                                    ![c].cloned = @ + 1]
       ELSE /\ disk' = [disk EXCEPT !.clone[Dest(c)] = "absent"]
            /\ call' = [call EXCEPT ![c] = AfterFailedAttempt(call[c])]
    /\ UNCHANGED <<notebooks, entries, clones>>

\* The row recordClone writes for call c: the branch and commit
\* currentBranchAndCommit reads in the clone directory.
RecordedRow(c) ==
    CloneRow(call[c].org, call[c].repo,
             disk.head[Dest(c)].branch, disk.head[Dest(c)].commit_sha)

\* recordClone: the branch and commit of the clone are read back and the
\* clone row is written; an error is logged and the handler goes on.
RecordClone(c, ok) ==
    /\ call[c].pc = "record"
    /\ clones' = IF ok THEN UpsertClone(clones, RecordedRow(c)) ELSE clones
    /\ call' = [call EXCEPT ![c].pc = "create",
                            ![c].recorded = IF ok THEN {RecordedRow(c)} ELSE {}]
    /\ UNCHANGED <<notebooks, entries, disk>>

\* A table notebooks without its primary key.
NotebookIdNeverTaken(id) == FALSE

\* id TEXT PRIMARY KEY: an INSERT of a taken id fails.
NotebookIdTaken(id) == \E n \in notebooks : n.id = id

\* git worktree add refuses a path that exists (with the path goes the
\* branch of the same name in the clone).
WorktreeExists(org, repo, name) ==
    worktreeDirPath(org, repo, name) \in disk.worktrees

\* The ids genNotebookID has not yielded yet.
FreshIds ==
    NewIds \ ({n.id : n \in notebooks} \cup {call[c].id : c \in TryCalls})

\* A createNotebook that writes the notebook row before it creates the
\* worktree.
WorktreeAddRegistered(c, id, ok) ==
    /\ call[c].pc = "create"
    /\ id \in FreshIds
    /\ notebooks' = notebooks \cup
          {[id |-> id, org |-> call[c].org, repo |-> call[c].repo,
            branch |-> WorktreeName(id), worktree |-> WorktreeName(id),
            commit_sha |-> HeadCommit]}
    /\ call' = [call EXCEPT
          ![c] = Answered([call[c] EXCEPT !.id = id], "worktree",
                          "Failed to create notebook.")]
    /\ UNCHANGED <<entries, clones, disk>>

\* createNotebook: git worktree add -b nb-<id> <wtDir>. It can succeed only on
\* a complete clone; its error is returned and answered.
WorktreeAdd(c, id, ok) ==
    /\ call[c].pc = "create"
    /\ id \in NewIds
    /\ ok => /\ disk.clone[Dest(c)] = "cloned"
             /\ ~WorktreeExists(call[c].org, call[c].repo, WorktreeName(id))
    /\ IF ok
       THEN /\ disk' = [disk EXCEPT !.worktrees = @ \cup
                          {worktreeDirPath(call[c].org, call[c].repo,
                                           WorktreeName(id))}]
            /\ call' = [call EXCEPT ![c].pc = "readback", ![c].id = id]
       ELSE /\ disk' = disk
            /\ call' = [call EXCEPT
                  ![c] = Answered([call[c] EXCEPT !.id = id], "worktree",
                                  "Failed to create notebook.")]
    /\ UNCHANGED <<notebooks, entries, clones>>

\* createNotebook: currentBranchAndCommit(ctx, wtDir); its error is returned
\* and answered, the worktree stays.
ReadBack(c, ok) ==
    /\ call[c].pc = "readback"
    /\ call' = [call EXCEPT
          ![c] = IF ok
                 THEN [call[c] EXCEPT !.pc = "insert",
                                      !.branch = WorktreeName(call[c].id),
                                      !.sha = disk.head[Dest(c)].commit_sha]
                 ELSE Answered(call[c], "readback",
                               "Failed to create notebook.")]
    /\ UNCHANGED <<notebooks, entries, clones, disk>>

\* createNotebook: the INSERT of the notebook row; tryHandler redirects to
\* the notebook, or answers the error.
InsertNotebook(c, ok) ==
    /\ call[c].pc = "insert"
    /\ ok => ~NotebookIdTaken(call[c].id)
    /\ IF ok
       THEN /\ notebooks' = notebooks \cup
                  {[id |-> call[c].id, org |-> call[c].org,
                    repo |-> call[c].repo, branch |-> call[c].branch,
                    worktree |-> WorktreeName(call[c].id),
                    commit_sha |-> call[c].sha]}
            /\ call' = [call EXCEPT
                  ![c].pc = "done",
                  ![c].location = <<"/", "n", "/">> \o call[c].id]
       ELSE /\ notebooks' = notebooks
            /\ call' = [call EXCEPT
                  ![c] = Answered(call[c], "insert",
                                  "Failed to create notebook.")]
    /\ UNCHANGED <<entries, clones, disk>>

\* The disk that goes with a set of notebook rows: the clone of each
\* repository is complete, every notebook has its worktree.
DiskOf(rows) ==
    [clone |-> [d \in ClonePaths |->
                   IF \E n \in rows : repoDirPath(n.org, n.repo) = d
                   THEN "cloned" ELSE "absent"],
     head |-> [d \in ClonePaths |->
                  IF \E n \in rows : repoDirPath(n.org, n.repo) = d
                  THEN CloneHead(T_main, HeadCommit) ELSE NoHead],
     worktrees |-> {worktreeDirPath(n.org, n.repo, n.worktree) : n \in rows}]

-----------------------------------------------------------------------------
(* Specifications                                                          *)

Init ==
    /\ notebooks = {NotebookRow(id) : id \in NbIds}
    /\ entries = {}
    /\ app = [p \in Appenders |-> AppIdle]
    /\ ncalls = [nb \in NbIds |-> 0]
    /\ run = [r \in Runs |-> RunIdle]
    /\ page = PageIdle
    /\ clones = {CloneRow(<<"o">>, <<"r">>, T_main, HeadCommit)}
    /\ disk = DiskOf({NotebookRow(id) : id \in NbIds})
    /\ call = [c \in TryCalls |-> CallIdle]

\* Concurrent appends: any interleaving of the callers' statements.
Next ==
    \/ \E p \in Appenders, nb \in NbIds, prompt \in Prompts :
          AppendRead(p, nb, prompt) /\ UNCHANGED <<run, page, tryVars>>
    \/ \E p \in Appenders : AppendInsert(p) /\ UNCHANGED <<run, page, tryVars>>
    \/ \E p \in Appenders : AppendReturn(p) /\ UNCHANGED <<run, page, tryVars>>

Spec == Init /\ [][Next]_vars

\* Sequential appends: a call begins only when no other call is in progress.
NextSeq ==
    \/ \E p \in Appenders, nb \in NbIds, prompt \in Prompts :
          NoAppendInProgress /\ AppendRead(p, nb, prompt) /\ UNCHANGED <<run, page, tryVars>>
    \/ \E p \in Appenders : AppendInsert(p) /\ UNCHANGED <<run, page, tryVars>>
    \/ \E p \in Appenders : AppendReturn(p) /\ UNCHANGED <<run, page, tryVars>>

SpecSeq == Init /\ [][NextSeq]_vars

\* The notebook the /run requests address, and its two entries.
RunNb == <<"a", "1">>

\* What the process of a model may write in one chunk.
Chunks(model) ==
    IF model = T_router
    THEN {<<"E", "d", "i", "t", "\n">>, T_question, <<" ", "x">>}
    ELSE {<<"o", "k">>}

\* Form values of a /run request: a known, an unknown and an unsafe notebook
\* id; the index of the first entry (the second entry is never addressed),
\* an index that does not exist, one that is no number; the
\* models, no model and an unknown model.
ReqNbIds == {RunNb, <<"z", "9">>, <<"a", "/">>}

ReqIdxs == {<<" ", "0">>, <<"7">>, <<"x">>}

ReqModels == Models \cup {Empty, <<"g", "p", "t">>}

InitRun ==
    /\ notebooks = {NotebookRow(id) : id \in NbIds}
    /\ entries = {EntryRow(RunNb, 0, "p"), EntryRow(RunNb, 1, "q")}
    /\ app = [p \in Appenders |-> AppIdle]
    /\ ncalls = [nb \in NbIds |-> IF nb = RunNb THEN 2 ELSE 0]
    /\ run = [r \in Runs |-> RunIdle]
    /\ page = PageIdle
    /\ clones = {CloneRow(<<"o">>, <<"r">>, T_main, HeadCommit)}
    /\ disk = DiskOf({NotebookRow(id) : id \in NbIds})
    /\ call = [c \in TryCalls |-> CallIdle]

\* Any client sending /run requests, the processes they start, and the
\* cancellation of a request at any moment before its handler returns.
NextRun ==
    \/ \E r \in FreeRuns, nb \in ReqNbIds, idx \in ReqIdxs, model \in ReqModels :
          Request(r, nb, idx, model) /\ UNCHANGED <<app, ncalls, page, tryVars>>
    \/ \E r \in FreeRuns : StartOk(r) /\ UNCHANGED <<app, ncalls, page, tryVars>>
    \/ \E r \in FreeRuns : StartFail(r) /\ UNCHANGED <<app, ncalls, page, tryVars>>
    \/ \E r \in FreeRuns : \E chunk \in Chunks(run[r].model) :
          Emit(r, chunk) /\ UNCHANGED <<app, ncalls, page, tryVars>>
    \/ \E r \in FreeRuns, exit \in {"ok", "status1"} :
          Exit(r, exit) /\ UNCHANGED <<app, ncalls, page, tryVars>>
    \/ \E r \in FreeRuns : Cancel(r) /\ UNCHANGED <<app, ncalls, page, tryVars>>
    \/ \E r \in FreeRuns : AfterWait(r) /\ UNCHANGED <<app, ncalls, page, tryVars>>

SpecRun == InitRun /\ [][NextRun]_vars

\* /run requests for the first entry, with every chunk of a process going
\* through the MultiWriter in two steps: to the buffer and to the response.
NextStream ==
    \/ \E r \in FreeRuns, model \in {T_gemini, T_claude, T_router} :
          Request(r, RunNb, <<" ", "0">>, model)
             /\ UNCHANGED <<app, ncalls, page, tryVars>>
    \/ \E r \in FreeRuns : StartOk(r) /\ UNCHANGED <<app, ncalls, page, tryVars>>
    \/ \E r \in FreeRuns : StartFail(r) /\ UNCHANGED <<app, ncalls, page, tryVars>>
    \/ \E r \in FreeRuns : \E chunk \in Chunks(run[r].model) :
          EmitFirst(r, chunk) /\ UNCHANGED <<app, ncalls, page, tryVars>>
    \/ \E r \in FreeRuns, written \in BOOLEAN :
          EmitSecond(r, written) /\ UNCHANGED <<app, ncalls, page, tryVars>>
    \/ \E r \in FreeRuns :
          CancelWriting(r) /\ UNCHANGED <<app, ncalls, page, tryVars>>
    \/ \E r \in FreeRuns, exit \in {"ok", "status1"} :
          Exit(r, exit) /\ UNCHANGED <<app, ncalls, page, tryVars>>
    \/ \E r \in FreeRuns : Cancel(r) /\ UNCHANGED <<app, ncalls, page, tryVars>>
    \/ \E r \in FreeRuns : AfterWait(r) /\ UNCHANGED <<app, ncalls, page, tryVars>>

SpecStream == InitRun /\ [][NextStream]_vars

\* The value of the hidden form field idx: the index of the pending entry.
PendingIdx == <<"0">>

\* startRouter(): the script posts the router's /run request.
PageStartRouter ==
    /\ page.pc = "init"
    /\ run' = [run EXCEPT ![controllers(T_router)] =
                  Received(RunNb, PendingIdx, T_router)]
    /\ page' = [page EXCEPT !.pc = "router"]
    /\ UNCHANGED <<notebooks, entries, app, ncalls, tryVars>>

\* The router's stream has ended and Stop was not pressed: the script decides
\* and posts the /run requests of the models it chose.
PageRouterDone ==
    LET decision == RouterDecision(StreamText(run[controllers(T_router)].w))
        models == ModelsFor(decision)
    IN  /\ page.pc = "router"
        /\ ~page.abortedAll
        /\ run[controllers(T_router)].pc = "done"
        /\ page' = [page EXCEPT !.pc = "agents", !.decision = decision,
                                !.remaining = Cardinality(models),
                                !.started = models]
        /\ run' = [r \in Runs |->
                      IF \E m \in models : controllers(m) = r
                      THEN Received(RunNb, PendingIdx,
                               CHOOSE m \in models : controllers(m) = r)
                      ELSE run[r]]
        /\ UNCHANGED <<notebooks, entries, app, ncalls, tryVars>>

\* The Stop button: abortedAll is set and every controller aborts its request.
PageStop ==
    /\ page.pc \in {"router", "agents"}
    /\ page' = [page EXCEPT !.pc = "shown", !.abortedAll = TRUE]
    /\ run' = [r \in Runs |-> Cancelled(run[r])]
    /\ UNCHANGED <<notebooks, entries, app, ncalls, tryVars>>

\* The request of a started model is over (its stream ended, or it was
\* aborted): remaining is counted down, and at zero the next prompt is shown.
PageModelDone(model) ==
    /\ model \in page.started \ page.settled
    /\ run[controllers(model)].pc = "done" \/ page.abortedAll
    /\ page' = [page EXCEPT
          !.settled = @ \cup {model},
          !.remaining = @ - 1,
          !.pc = IF page.remaining - 1 = 0 THEN "shown" ELSE @]
    /\ UNCHANGED <<notebooks, entries, app, ncalls, run, tryVars>>

\* The page with a pending entry, and the handlers of the requests it makes.
NextPage ==
    \/ PageStartRouter
    \/ PageRouterDone
    \/ PageStop
    \/ \E model \in Agents : PageModelDone(model)
    \/ \E r \in Runs : StartOk(r) /\ UNCHANGED <<app, ncalls, page, tryVars>>
    \/ \E r \in Runs : StartFail(r) /\ UNCHANGED <<app, ncalls, page, tryVars>>
    \/ \E r \in Runs : \E chunk \in Chunks(run[r].model) :
          Emit(r, chunk) /\ UNCHANGED <<app, ncalls, page, tryVars>>
    \/ \E r \in Runs, exit \in {"ok", "status1"} :
          Exit(r, exit) /\ UNCHANGED <<app, ncalls, page, tryVars>>
    \/ \E r \in Runs : AfterWait(r) /\ UNCHANGED <<app, ncalls, page, tryVars>>

SpecPage == InitRun /\ [][NextPage]_vars

\* A client sends its requests one at a time: no handler is at work when a
\* request arrives.
Quiet ==
    /\ \A c \in TryCalls : call[c].pc \in {"idle", "done"}
    /\ \A p \in Appenders : app[p].pc = "idle"
    /\ \A r \in Runs : run[r].pc \in {"idle", "done"}

\* The clone directory of o/r is absent, incomplete (no .git) or complete when
\* the server starts; nothing is in the store.
InitTry ==
    /\ notebooks = {}
    /\ entries = {}
    /\ app = [p \in Appenders |-> AppIdle]
    /\ ncalls = [nb \in NbIds \cup NewIds |-> 0]
    /\ run = [r \in Runs |-> RunIdle]
    /\ page = PageIdle
    /\ clones = {}
    /\ \E st \in {"absent", "partial", "cloned"} :
          disk = [clone |-> [d \in ClonePaths |->
                                IF d = repoDirPath(<<"o">>, <<"r">>)
                                THEN st ELSE "absent"],
                  head |-> [d \in ClonePaths |->
                               IF d = repoDirPath(<<"o">>, <<"r">>)
                                  /\ st = "cloned"
                               THEN CloneHead(T_main, HeadCommit) ELSE NoHead],
                  worktrees |-> {}]
    /\ call = [c \in TryCalls |-> CallIdle]

\* The steps of the tryHandler invocations in the given set, with ids that
\* never repeat: genNotebookID draws 12 random bytes.
TrySteps(calls) ==
    \/ \E c \in calls : EnsureCheck(c) /\ UNCHANGED <<app, ncalls, run, page>>
    \/ \E c \in calls : EnsureRemove(c) /\ UNCHANGED <<app, ncalls, run, page>>
    \/ \E c \in calls : CloneStart(c) /\ UNCHANGED <<app, ncalls, run, page>>
    \/ \E c \in calls, ok \in BOOLEAN :
          CloneFinish(c, ok) /\ UNCHANGED <<app, ncalls, run, page>>
    \/ \E c \in calls, ok \in BOOLEAN :
          RecordClone(c, ok) /\ UNCHANGED <<app, ncalls, run, page>>
    \/ \E c \in calls, id \in FreshIds, ok \in BOOLEAN :
          WorktreeAdd(c, id, ok) /\ UNCHANGED <<app, ncalls, run, page>>
    \/ \E c \in calls, ok \in BOOLEAN :
          ReadBack(c, ok) /\ UNCHANGED <<app, ncalls, run, page>>
    \/ \E c \in calls, ok \in BOOLEAN :
          InsertNotebook(c, ok) /\ UNCHANGED <<app, ncalls, run, page>>

\* /try requests, one after the other.
NextTry ==
    \/ \E c \in TryCalls, input \in TryInputs :
          Quiet /\ TryRequest(c, input) /\ UNCHANGED <<app, ncalls, run, page>>
    \/ TrySteps(TryCalls)

SpecTry == InitTry /\ [][NextTry]_vars

\* The texts a client puts where org and repo go: names, an empty text, a
\* name with a "?", one with a blank inside, the parent directory.
Tokens ==
    {<<"o">>, <<"r", ".", "g">>, <<"A", "-", "1", "_">>, <<".", ".">>,
     Empty, <<"o", "?">>, <<"o", " ", "x">>}

\* The blanks a client may put around the parts of its input.
Pads == {Empty, <<" ">>}

\* The hosts of the URLs a client sends.
Hosts ==
    {T_githubHost,
     <<"G", "i", "t", "H", "u", "b", ".", "C", "O", "M">>,
     <<"g", "i", "t", "l", "a", "b", ".", "c", "o", "m">>,
     T_githubHost \o <<".", "e", "v", "i", "l", ".", "i", "o">>}

\* An input of the form org/repo, with blanks around the parts.
PlainInput(a, b, pad) == pad \o a \o pad \o <<"/">> \o pad \o b \o pad

\* A URL with two path segments and a suffix.
UrlInput(scheme, host, a, b, suffix) ==
    scheme \o host \o <<"/">> \o a \o <<"/">> \o b \o suffix

\* A URL with one path segment.
ShortUrlInput(scheme, host, a) == scheme \o host \o <<"/">> \o a

\* The inputs sent to the parser.
ParseInputs ==
    {PlainInput(a, b, pad) : a \in Tokens, b \in Tokens, pad \in Pads}
    \cup UNION {{UrlInput(sc, h, a, b, sf) : a \in Tokens, b \in Tokens,
                                            sf \in {Empty, T_dotGit}} :
                    sc \in {T_http, T_https}, h \in Hosts}
    \cup {ShortUrlInput(sc, h, a) :
             sc \in {T_http, T_https}, h \in Hosts, a \in Tokens}

\* One /try request: its input goes through parseRepoInput.
NextParse ==
    \E input \in ParseInputs :
        TryRequest(1, input) /\ UNCHANGED <<app, ncalls, run, page>>

SpecParse == InitTry /\ [][NextParse]_vars

\* Path p is strictly below directory base.
IsBelow(p, base) ==
    Len(p) > Len(base) /\ SubSeq(p, 1, Len(base)) = base

\* The server starts with its directories: the base directory with its parent,
\* the clone base and the worktree base exist (none of them has a .git); no
\* repository is cloned and nothing is in the store.
InitPath ==
    /\ notebooks = {}
    /\ entries = {}
    /\ app = [p \in Appenders |-> AppIdle]
    /\ ncalls = [nb \in NbIds \cup NewIds |-> 0]
    /\ run = [r \in Runs |-> RunIdle]
    /\ page = PageIdle
    /\ clones = {}
    /\ disk = [clone |-> [d \in ClonePaths |->
                             IF IsBelow(d, cloneBaseDir)
                             THEN "absent" ELSE "partial"],
               head |-> [d \in ClonePaths |-> NoHead],
               worktrees |-> {}]
    /\ call = [c \in TryCalls |-> CallIdle]

\* /try requests, one after the other, with inputs made of dots.
NextPath ==
    \/ \E c \in TryCalls, input \in PathInputs :
          Quiet /\ TryRequest(c, input) /\ UNCHANGED <<app, ncalls, run, page>>
    \/ TrySteps(TryCalls)

SpecPath == InitPath /\ [][NextPath]_vars

\* Between two requests someone outside the server removes a clone directory
\* (the server itself never cleans up).
ExternalRemove(d) ==
    /\ Quiet
    /\ disk.clone[d] = "cloned"
    /\ disk' = [disk EXCEPT !.clone[d] = "absent", !.head[d] = NoHead]
    /\ UNCHANGED <<notebooks, entries, clones, call>>

\* /try requests, one after the other, with clone directories that may be
\* removed in between.
NextClone ==
    \/ NextTry
    \/ \E d \in ClonePaths :
          ExternalRemove(d) /\ UNCHANGED <<app, ncalls, run, page>>

SpecClone == InitTry /\ [][NextClone]_vars

\* The notebook ids the client sends: those of the notebooks /try may create,
\* and a text that is no safe token.
SentNbIds == NewIds \cup {<<"c", "/">>}

\* The prompts the client sends: a prompt, and two that are empty when trimmed.
SentPrompts == {<<" ", "p", " ">>, <<" ", "\n">>, Empty}

\* The indexes the client sends: that of a first entry, and one that is no
\* number.
SentIdxs == {<<"0">>, <<"x">>}

\* One client that sends a /try request and /prompt and /run requests, one at
\* a time; it sends prompts for the notebooks it was redirected to, and for
\* ids that are no safe tokens.
NextInput ==
    \/ \E input \in TryInputs :
          Quiet /\ TryRequest(1, input) /\ UNCHANGED <<app, ncalls, run, page>>
    \/ TrySteps({1})
    \/ \E nbRaw \in SentNbIds, promptRaw \in SentPrompts :
          /\ Quiet
          /\ ~isSafeToken(TrimSpace(nbRaw)) \/ NotebookFound(TrimSpace(nbRaw))
          /\ PromptRequest("a1", nbRaw, promptRaw)
          /\ UNCHANGED <<run, page, tryVars>>
    \/ AppendInsert("a1") /\ UNCHANGED <<run, page, tryVars>>
    \/ AppendReturn("a1") /\ UNCHANGED <<run, page, tryVars>>
    \/ \E nbRaw \in SentNbIds, idxRaw \in SentIdxs :
          /\ Quiet
          /\ Request(1, nbRaw, idxRaw, T_gemini)
          /\ UNCHANGED <<app, ncalls, page, tryVars>>
    \/ StartOk(1) /\ UNCHANGED <<app, ncalls, page, tryVars>>
    \/ StartFail(1) /\ UNCHANGED <<app, ncalls, page, tryVars>>
    \/ \E chunk \in Chunks(T_gemini) :
          Emit(1, chunk) /\ UNCHANGED <<app, ncalls, page, tryVars>>
    \/ \E exit \in {"ok", "status1"} :
          Exit(1, exit) /\ UNCHANGED <<app, ncalls, page, tryVars>>
    \/ Cancel(1) /\ UNCHANGED <<app, ncalls, page, tryVars>>
    \/ AfterWait(1) /\ UNCHANGED <<app, ncalls, page, tryVars>>

SpecInput == InitTry /\ [][NextInput]_vars

\* The server starts with the complete clone of o/r and an empty store.
InitStore ==
    /\ InitTry
    /\ disk.clone[repoDirPath(<<"o">>, <<"r">>)] = "cloned"

\* runHandler has returned; the next /run request is served by a new
\* invocation.
RunReturn(r) ==
    /\ run[r].pc = "done"
    /\ run' = [run EXCEPT ![r] = RunIdle]
    /\ UNCHANGED <<notebooks, entries>>

\* A client that creates a notebook, appends prompts to it and runs the
\* models on its first entry, one request at a time: every statement that
\* writes to the store is run.
NextStore ==
    \/ /\ Quiet
       /\ TryRequest(1, <<"o", "/", "r">>)
       /\ UNCHANGED <<app, ncalls, run, page>>
    \/ EnsureCheck(1) /\ UNCHANGED <<app, ncalls, run, page>>
    \/ \E ok \in BOOLEAN :
          RecordClone(1, ok) /\ UNCHANGED <<app, ncalls, run, page>>
    \/ \E id \in FreshIds, ok \in BOOLEAN :
          WorktreeAdd(1, id, ok) /\ UNCHANGED <<app, ncalls, run, page>>
    \/ \E ok \in BOOLEAN :
          ReadBack(1, ok) /\ UNCHANGED <<app, ncalls, run, page>>
    \/ \E ok \in BOOLEAN :
          InsertNotebook(1, ok) /\ UNCHANGED <<app, ncalls, run, page>>
    \/ \E nbRaw \in NewIds :
          /\ Quiet
          /\ NotebookFound(nbRaw)
          /\ PromptRequest("a1", nbRaw, <<" ", "p", " ">>)
          /\ UNCHANGED <<run, page, tryVars>>
    \/ AppendInsert("a1") /\ UNCHANGED <<run, page, tryVars>>
    \/ AppendReturn("a1") /\ UNCHANGED <<run, page, tryVars>>
    \/ \E nbRaw \in NewIds, modelRaw \in {T_gemini, T_claude, T_router} :
          /\ Quiet
          /\ Request(1, nbRaw, <<"0">>, modelRaw)
          /\ UNCHANGED <<app, ncalls, page, tryVars>>
    \/ StartOk(1) /\ UNCHANGED <<app, ncalls, page, tryVars>>
    \/ StartFail(1) /\ UNCHANGED <<app, ncalls, page, tryVars>>
    \/ \E chunk \in Chunks(run[1].model) \ {T_question, <<" ", "x">>} :
          Emit(1, chunk) /\ UNCHANGED <<app, ncalls, page, tryVars>>
    \/ \E exit \in {"ok", "status1"} :
          Exit(1, exit) /\ UNCHANGED <<app, ncalls, page, tryVars>>
    \/ Cancel(1) /\ UNCHANGED <<app, ncalls, page, tryVars>>
    \/ AfterWait(1) /\ UNCHANGED <<app, ncalls, page, tryVars>>
    \/ RunReturn(1) /\ UNCHANGED <<app, ncalls, page, tryVars>>

SpecStore == InitStore /\ [][NextStore]_vars

\* The run whose outcome is looked at, and the run that follows it.
FirstRun == 1

SecondRun == 2

\* One /run request on an entry of the notebook; when its handler has
\* returned, prompts for the same notebook, and a /run request on an entry
\* appended by them.
NextUsable ==
    \/ \E idxRaw \in {<<"0">>, <<"1">>}, modelRaw \in Models :
          Request(FirstRun, RunNb, idxRaw, modelRaw)
             /\ UNCHANGED <<app, ncalls, page, tryVars>>
    \/ /\ run[FirstRun].pc = "done"
       /\ run[SecondRun].pc = "idle"
       /\ PromptRequest("a1", RunNb, <<" ", "n", " ">>)
       /\ UNCHANGED <<run, page, tryVars>>
    \/ AppendInsert("a1") /\ UNCHANGED <<run, page, tryVars>>
    \/ AppendReturn("a1") /\ UNCHANGED <<run, page, tryVars>>
    \/ \E idxRaw \in {<<"2">>, <<"3">>}, modelRaw \in Models :
          /\ run[FirstRun].pc = "done"
          /\ app["a1"].pc = "idle"
          /\ Request(SecondRun, RunNb, idxRaw, modelRaw)
          /\ UNCHANGED <<app, ncalls, page, tryVars>>
    \/ \E r \in {FirstRun, SecondRun} :
          StartOk(r) /\ UNCHANGED <<app, ncalls, page, tryVars>>
    \/ \E r \in {FirstRun, SecondRun} :
          StartFail(r) /\ UNCHANGED <<app, ncalls, page, tryVars>>
    \/ \E r \in {FirstRun, SecondRun} :
          \E chunk \in Chunks(run[r].model) \ {T_question, <<" ", "x">>} :
             Emit(r, chunk) /\ UNCHANGED <<app, ncalls, page, tryVars>>
    \/ \E r \in {FirstRun, SecondRun}, exit \in {"ok", "status1"} :
          Exit(r, exit) /\ UNCHANGED <<app, ncalls, page, tryVars>>
    \/ \E r \in {FirstRun, SecondRun} :
          Cancel(r) /\ UNCHANGED <<app, ncalls, page, tryVars>>
    \/ \E r \in {FirstRun, SecondRun} :
          AfterWait(r) /\ UNCHANGED <<app, ncalls, page, tryVars>>

SpecUsable == InitRun /\ [][NextUsable]_vars

\* /try requests for the same repository served concurrently, as net/http
\* serves them: each in its own goroutine, their steps in any order.
NextConcurrentTry ==
    \/ \E c \in TryCalls :
          TryRequest(c, <<"o", "/", "r">>) /\ UNCHANGED <<app, ncalls, run, page>>
    \/ TrySteps(TryCalls)

SpecConcurrentTry == InitTry /\ [][NextConcurrentTry]_vars

\* Values of the form field model: the four models, one of them padded,
\* no value, blanks only, a model in capitals and an unknown model.
ModelInputs ==
    Models \cup {<<" ">> \o T_claude \o <<" ">>, Empty, <<" ">>,
                 <<"G", "e", "m", "i", "n", "i">>, <<"g", "p", "t">>}

\* /run requests for the first entry with any of these model values, and
\* for an unknown notebook.
NextModel ==
    \/ \E r \in FreeRuns, nb \in {RunNb, <<"z", "9">>}, model \in ModelInputs :
          Request(r, nb, <<"0">>, model)
             /\ UNCHANGED <<app, ncalls, page, tryVars>>
    \/ \E r \in FreeRuns : StartOk(r) /\ UNCHANGED <<app, ncalls, page, tryVars>>
    \/ \E r \in FreeRuns : StartFail(r) /\ UNCHANGED <<app, ncalls, page, tryVars>>
    \/ \E r \in FreeRuns :
          \E chunk \in Chunks(run[r].model) \ {T_question, <<" ", "x">>} :
             /\ run[r].buf = Empty
             /\ Emit(r, chunk) /\ UNCHANGED <<app, ncalls, page, tryVars>>
    \/ \E r \in FreeRuns, exit \in {"ok", "status1"} :
          Exit(r, exit) /\ UNCHANGED <<app, ncalls, page, tryVars>>
    \/ \E r \in FreeRuns : Cancel(r) /\ UNCHANGED <<app, ncalls, page, tryVars>>
    \/ \E r \in FreeRuns : AfterWait(r) /\ UNCHANGED <<app, ncalls, page, tryVars>>

SpecModel == InitRun /\ [][NextModel]_vars

\* The two repositories of the requests that may be given the same id.
T_pq ==
    <<"h", "t", "t", "p", "s", ":", "/", "/", "g", "i", "t", "h", "u", "b",
      ".", "c", "o", "m", "/", "p", "/", "q", ".", "g", "i", "t">>

\* /try requests for two repositories, one after the other, with a
\* genNotebookID that may yield an id again (its fallback is the clock).
NextSameId ==
    \/ \E c \in TryCalls, input \in {<<"o", "/", "r">>, T_pq} :
          Quiet /\ TryRequest(c, input) /\ UNCHANGED <<app, ncalls, run, page>>
    \/ \E c \in TryCalls : EnsureCheck(c) /\ UNCHANGED <<app, ncalls, run, page>>
    \/ \E c \in TryCalls : EnsureRemove(c) /\ UNCHANGED <<app, ncalls, run, page>>
    \/ \E c \in TryCalls : CloneStart(c) /\ UNCHANGED <<app, ncalls, run, page>>
    \/ \E c \in TryCalls, ok \in BOOLEAN :
          CloneFinish(c, ok) /\ UNCHANGED <<app, ncalls, run, page>>
    \/ \E c \in TryCalls, ok \in BOOLEAN :
          RecordClone(c, ok) /\ UNCHANGED <<app, ncalls, run, page>>
    \/ \E c \in TryCalls, id \in NewIds, ok \in BOOLEAN :
          WorktreeAdd(c, id, ok) /\ UNCHANGED <<app, ncalls, run, page>>
    \/ \E c \in TryCalls, ok \in BOOLEAN :
          ReadBack(c, ok) /\ UNCHANGED <<app, ncalls, run, page>>
    \/ \E c \in TryCalls, ok \in BOOLEAN :
          InsertNotebook(c, ok) /\ UNCHANGED <<app, ncalls, run, page>>

SpecSameId == InitStore /\ [][NextSameId]_vars

\* One client that sends a /try request for o/r and prompts for ids that
\* are safe tokens, whether a notebook has the id or not.
NextAnyNotebook ==
    \/ /\ Quiet
       /\ TryRequest(1, <<"o", "/", "r">>)
       /\ UNCHANGED <<app, ncalls, run, page>>
    \/ TrySteps({1})
    \/ \E nbRaw \in NewIds, promptRaw \in SentPrompts :
          /\ Quiet
          /\ PromptRequest("a1", nbRaw, promptRaw)
          /\ UNCHANGED <<run, page, tryVars>>
    \/ AppendInsert("a1") /\ UNCHANGED <<run, page, tryVars>>
    \/ AppendReturn("a1") /\ UNCHANGED <<run, page, tryVars>>

SpecAnyNotebook == InitTry /\ [][NextAnyNotebook]_vars

\* Safe tokens a client gives as org and repo: plain names, names with
\* every kind of safe character, and names that end in ".git".
FormTokens ==
    {<<"o">>, <<"A", "-", "1", "_">>, <<".", ".">>, <<"r", ".", "g">>,
     <<"r">> \o T_dotGit, T_dotGit}

\* The short form org/repo of a pair of tokens.
ShortForm(a, b) == PlainInput(a, b, Empty)

\* The URL form https://github.com/org/repo of a pair of tokens.
UrlForm(a, b) == UrlInput(T_https, T_githubHost, a, b, Empty)

\* A first request in the short form and a second one in the URL form: both
\* inputs go through parseRepoInput.
NextForms ==
    \/ \E a \in FormTokens, b \in FormTokens :
          TryRequest(1, ShortForm(a, b)) /\ UNCHANGED <<app, ncalls, run, page>>
    \/ \E a \in FormTokens, b \in FormTokens :
          TryRequest(2, UrlForm(a, b)) /\ UNCHANGED <<app, ncalls, run, page>>

SpecForms == InitStore /\ [][NextForms]_vars

-----------------------------------------------------------------------------
(* Claims                                                                  *)

\* C1: for sequential appendNotebookEntry calls on one notebook, the N-th
\* call returns N-1 and stores the new entry, with the call's prompt, under
\* exactly that index.
C1_SequentialIndex ==
    \A p \in Appenders :
        app[p].pc = "done" =>
            /\ ~app[p].err
            /\ app[p].ret = ncalls[app[p].nb] - 1
            /\ EntryRow(app[p].nb, app[p].ret, app[p].prompt) \in entries
            /\ Cardinality(EntriesOf(app[p].nb)) = ncalls[app[p].nb]

\* C1 witness: the third sequential call on a notebook has returned 2.
C1_Witness ==
    \E p \in Appenders :
        /\ app[p].pc = "done"
        /\ ncalls[app[p].nb] = 3
        /\ app[p].ret = 2

\* C2: no other append to the same notebook takes effect between a call's
\* read of the maximum and its insert: while a call holds the index it has
\* read, that index is still the notebook's maximum plus one.
C2_ReadInsertAtomic ==
    \A p \in Appenders :
        app[p].pc = "read" => app[p].next = NextIdx(app[p].nb)

\* C3: in every reachable state the indices of a notebook's entries are
\* exactly 0 .. n-1 for its n entries.
C3_GapFree ==
    \A nb \in NbIds :
        {e.idx : e \in EntriesOf(nb)} = 0 .. (Cardinality(EntriesOf(nb)) - 1)

\* C3 witness: two callers read the same maximum of a notebook, one insert
\* was refused, and the notebook holds entries 0 and 1.
C3_Witness ==
    \E p \in Appenders :
        /\ app[p].pc = "done"
        /\ app[p].err
        /\ Cardinality(EntriesOf(app[p].nb)) = 2

-----------------------------------------------------------------------------
(* Claims about runHandler                                                 *)

\* The row of an entry in a table.
EntryAt(rows, nb, idx) ==
    CHOOSE e \in rows : e.notebook_id = nb /\ e.idx = idx

\* The writes of a response.
Written(r) == {run[r].w[i] : i \in DOMAIN run[r].w}

\* The markers that end a response of a model.
ErrorMarkers(model) ==
    {ExitErrMarker(model, WaitErrText(x)) : x \in {"status1", "killed"}}
        \cup {StartErrMarker(model, StartErrText(c, model)) : c \in BOOLEAN}

\* The column the claims name for a model's output.
ColumnFor(model) == IF model = T_claude THEN "output_claude" ELSE "output"

\* The handler of request r takes its last step, cmd.Wait() having returned
\* the given exit.
Finishes(r, exit) ==
    /\ run[r].pc = "waited"
    /\ run[r].exit = exit
    /\ run'[r].pc = "done"

\* The request of r was cancelled before its process exited (or started), and
\* the handler takes its last step.
FinishesCancelled(r) ==
    /\ run[r].ctxDone
    /\ \/ run[r].pc = "waited" /\ run[r].exit = "killed"
       \/ run[r].pc = "start"
    /\ run'[r].pc = "done"

C7_RouterLeavesOutputs ==
    [][\A r \in Runs :
          (run[r].model = T_router /\ run'[r] # run[r]) =>
              \A e \in entries :
                  /\ EntryAt(entries', e.notebook_id, e.idx).output = e.output
                  /\ EntryAt(entries', e.notebook_id, e.idx).output_claude
                         = e.output_claude]_vars

\* Two texts are equal up to the case of their letters.
EqualFold(s, t) ==
    /\ Len(s) = Len(t)
    /\ \A i \in 1 .. Len(s) :
          \/ s[i] = t[i]
          \/ s[i] \in DOMAIN UpperToLower /\ UpperToLower[s[i]] = t[i]
          \/ t[i] \in DOMAIN UpperToLower /\ UpperToLower[t[i]] = s[i]

\* The text, without the white space around it, is the word or begins with
\* it, up to the case of the letters.
StartsWithWord(text, word) ==
    \E n \in 0 .. Len(text) :
        /\ n = Len(word)
        /\ n <= Len(TrimSpace(text))
        /\ EqualFold(SubSeq(TrimSpace(text), 1, n), word)

\* The text, without the white space around it, is the word, up to the case
\* of the letters.
IsWord(text, word) == EqualFold(TrimSpace(text), word)

\* The intent the claims expect of a router output.
ExpectedIntent(text) ==
    IF StartsWithWord(text, T_edit) THEN T_edit
    ELSE IF StartsWithWord(text, T_question) THEN T_question
    ELSE Empty

C9_ClassificationExact ==
    \A r \in Runs :
        (run[r].pc = "done" /\ run[r].model = T_router /\ run[r].exit = "ok") =>
            /\ IsWord(run[r].buf, T_edit) => run[r].intent = T_edit
            /\ IsWord(run[r].buf, T_question) => run[r].intent = T_question
            /\ (~StartsWithWord(run[r].buf, T_edit)
                  /\ ~StartsWithWord(run[r].buf, T_question))
                   => run[r].intent = Empty
            /\ \A q \in Runs :
                   (run[q].pc = "done" /\ run[q].model = T_router
                        /\ run[q].exit = "ok" /\ run[q].buf = run[r].buf)
                       => run[q].intent = run[r].intent

\* C9 witness: two router runs have classified the output "Edit\n", both as
\* edit.
C9_Witness ==
    \E r, q \in Runs :
        /\ r # q
        /\ \A h \in {r, q} :
              /\ run[h].pc = "done"
              /\ run[h].model = T_router
              /\ run[h].exit = "ok"
              /\ run[h].buf = <<"E", "d", "i", "t", "\n">>
              /\ run[h].intent = T_edit

\* C9 (as claimed): the classification step yields edit (question) for an
\* output that is exactly edit (question) in any letter case, and the empty
\* intent for any other output.
C9_OnlyExactWords ==
    \A r \in Runs :
        (run[r].pc = "done" /\ run[r].model = T_router /\ run[r].exit = "ok") =>
            /\ IsWord(run[r].buf, T_edit) => run[r].intent = T_edit
            /\ IsWord(run[r].buf, T_question) => run[r].intent = T_question
            /\ (~IsWord(run[r].buf, T_edit) /\ ~IsWord(run[r].buf, T_question))
                   => run[r].intent = Empty

\* C10 (as claimed): once the page has dispatched the real agents of the
\* pending entry, aider has been dispatched, alone, exactly when the intent
\* persisted for the entry is edit, and when the persisted intent is question
\* or empty, exactly claude and gemini have been dispatched.
C10_DispatchAgreesWithIntent ==
    page.started # {} =>
        /\ (page.started = {T_aider})
               <=> (EntryAt(entries, RunNb, 0).intent = T_edit)
        /\ EntryAt(entries, RunNb, 0).intent \in {T_question, Empty}
               => page.started = {T_claude, T_gemini}

\* C11: no step of the handler of a /run request for gemini, claude or aider
\* changes the intent of any entry, whatever the outcome of the process
\* (success, non-zero exit, failure to start, cancellation).
C11_AgentKeepsIntent ==
    [][\A r \in Runs :
          (run'[r].model \in Agents /\ run'[r] # run[r]) =>
              \A e \in entries :
                  EntryAt(entries', e.notebook_id, e.idx).intent = e.intent]_vars

\* C11 witness: the router has set the entry's intent to edit, and afterwards a
\* run of aider for the entry has persisted its output; the intent is still
\* edit.
C11_Witness ==
    \E r, q \in Runs :
        /\ run[r].pc = "done" /\ run[r].model = T_router
        /\ run[q].pc = "done" /\ run[q].model = T_aider
        /\ run[q].exit = "ok" /\ ~run[q].ctxDone
        /\ run[q].nb = run[r].nb /\ run[q].idx = run[r].idx
        /\ run[q].buf # Empty
        /\ EntryAt(entries, run[q].nb, run[q].idx).output = run[q].buf
        /\ EntryAt(entries, run[q].nb, run[q].idx).intent = T_edit

\* C14: every process a /run request has started runs with its working
\* directory set to <base>/worktree/<org>/<repo>/<worktree> of the notebook
\* named in the request, and that directory is not the clone of the
\* repository, <base>/clone/<org>/<repo>.
C14_RunsInWorktree ==
    \A r \in Runs :
        run[r].spawned > 0 =>
            \E n \in notebooks :
                /\ n.id = run[r].nb
                /\ run[r].dir = appDir \o <<T_worktree, n.org, n.repo, n.worktree>>
                /\ run[r].dir # appDir \o <<T_clone, n.org, n.repo>>

\* C14 witness: a process was started for a request and has exited.
C14_Witness ==
    \E r \in Runs :
        /\ run[r].spawned = 1
        /\ run[r].pc = "done"
        /\ run[r].exit = "ok"
        /\ run[r].dir = appDir \o <<T_worktree, <<"o">>, <<"r">>,
                                    <<"n", "b", "-", "a", "1">>>>

\* The form values of a request name a notebook that has no row.
NamesUnknownNotebook(req) ==
    /\ isSafeToken(TrimSpace(req[1]))
    /\ AtoiOk(TrimSpace(req[2]))
    /\ (req[3] = Empty \/ req[3] \in Models)
    /\ ~\E n \in notebooks : n.id = TrimSpace(req[1])

\* The form values of a request name a notebook that has a row, and an index
\* under which the notebook has no entry.
NamesMissingEntry(req) ==
    /\ isSafeToken(TrimSpace(req[1]))
    /\ AtoiOk(TrimSpace(req[2]))
    /\ (req[3] = Empty \/ req[3] \in Models)
    /\ \E n \in notebooks : n.id = TrimSpace(req[1])
    /\ ~\E e \in entries :
           e.notebook_id = TrimSpace(req[1]) /\ e.idx = Atoi(TrimSpace(req[2]))

\* C15: a /run request that names an unknown notebook is answered 404, and
\* one that names an index with no entry in its notebook is answered 400; the
\* handler returns at once, having spawned no process, written nothing to the
\* response stream and left the store as it was, and it takes no later step.
C15_UnknownIsClientError ==
    [][\A r \in Runs :
          /\ (run[r].pc = "idle" /\ run'[r].pc # "idle"
                  /\ (NamesUnknownNotebook(run'[r].req)
                          \/ NamesMissingEntry(run'[r].req))) =>
                 /\ run'[r].pc = "done"
                 /\ run'[r].status
                        = (IF NamesUnknownNotebook(run'[r].req) THEN 404 ELSE 400)
                 /\ run'[r].spawned = 0
                 /\ run'[r].w = <<>>
                 /\ entries' = entries
                 /\ notebooks' = notebooks
          /\ (run[r].pc = "done" /\ run[r].status \in {400, 404}) =>
                 run'[r] = run[r]]_vars

\* C15 witness: a request for an unknown notebook was answered 404, and a
\* later request was served to its end.
C15_Witness ==
    \E r, q \in Runs :
        /\ r < q
        /\ run[r].pc = "done" /\ run[r].status = 404
        /\ run[r].req[1] = <<"z", "9">>
        /\ run[r].spawned = 0
        /\ run[q].pc = "done" /\ run[q].status = 200 /\ run[q].exit = "ok"

\* C16: the handler of a /run request starts at most one process; once the
\* outcome of the request is known (the process exited with success, exited
\* non-zero, was killed by the cancellation, or could not be started) it
\* never changes and no further process is started; a request that has been
\* answered takes no further step, and an answered request that passed
\* validation has exactly one of these outcomes.
C16_OneProcessOneOutcome ==
    [][\A r \in Runs :
          /\ run'[r].spawned <= 1
          /\ run[r].exit # "none" =>
                 /\ run'[r].exit = run[r].exit
                 /\ run'[r].spawned = run[r].spawned
          /\ run[r].pc = "done" => run'[r] = run[r]
          /\ (run'[r].pc = "done" /\ run'[r].status = 200) =>
                 run'[r].exit \in {"ok", "status1", "killed", "nostart"}]_vars

\* C16 witness: one request ended with its process exiting non-zero, another
\* with its process killed by the cancellation; each started one process.
C16_Witness ==
    \E r, q \in Runs :
        /\ run[r].pc = "done" /\ run[r].exit = "status1" /\ run[r].spawned = 1
        /\ run[q].pc = "done" /\ run[q].exit = "killed" /\ run[q].spawned = 1

\* C17: every step that changes the store's entries is the last step of the
\* handler of one request, taken after cmd.Wait() has returned for that
\* request's process (it exited or was killed), and it changes only the entry
\* that request names; no entry changes while the process of the request
\* that changes it is still running.
C17_PersistAfterExit ==
    [][entries' # entries =>
          \E r \in Runs :
              /\ run[r].pc = "waited"
              /\ run[r].exit \in {"ok", "status1", "killed"}
              /\ run[r].spawned = 1
              /\ run'[r].pc = "done"
              /\ \A e \in entries :
                     EntryAt(entries', e.notebook_id, e.idx) # e =>
                         e.notebook_id = run[r].nb /\ e.idx = run[r].idx]_vars

\* C17 witness: the output of a run is in the store, its process having
\* exited, while the process of another request is still running.
C17_Witness ==
    \E r, q \in Runs :
        /\ run[r].pc = "done" /\ run[r].exit = "ok" /\ run[r].model = T_claude
        /\ run[r].buf # Empty
        /\ EntryAt(entries, run[r].nb, run[r].idx).output_claude = run[r].buf
        /\ run[q].pc = "running"

\* C19 (as claimed): when the store write of a run fails (the statement is
\* refused, its context being cancelled), the last thing the handler writes
\* to the response stream is not the success marker '[done]'.
C19_StoreErrorSurfaced ==
    [][\A r \in Runs :
          (run[r].pc = "waited" /\ run'[r].pc = "done" /\ run[r].ctxDone
               /\ ExecContext(run[r].ctxDone, "refused", "stored") = "refused") =>
              run'[r].w[Len(run'[r].w)] # DoneMarker]_vars

\* C20 (as amended): each call of setNotebookEntryOutputForModel that the
\* store executes changes exactly one output column of exactly the addressed
\* entry: output_claude for claude, output for every other model (gemini and
\* aider share it); the prompt, the intent, the other column and all other
\* entries are unchanged.
C20_OneColumnOneEntry ==
    [][\A r \in Runs :
          (run[r].pc = "waited" /\ run'[r].pc = "done" /\ ~run[r].ctxDone
               /\ (run[r].exit # "ok" \/ run[r].model \in Agents)) =>
              entries' = (entries \ {EntryAt(entries, run[r].nb, run[r].idx)})
                  \cup {[EntryAt(entries, run[r].nb, run[r].idx) EXCEPT
                            ![IF run[r].model = T_claude
                              THEN "output_claude" ELSE "output"] = run[r].buf]}]_vars

\* C20 witness: a run of claude and a run of gemini for the first entry have
\* stored their outputs, one in each column, and the second entry is as it was
\* appended.
C20_Witness ==
    \E r, q \in Runs :
        /\ run[r].pc = "done" /\ run[r].model = T_claude /\ ~run[r].ctxDone
        /\ run[q].pc = "done" /\ run[q].model = T_gemini /\ ~run[q].ctxDone
        /\ run[r].nb = RunNb /\ run[r].idx = 0 /\ run[q].nb = RunNb /\ run[q].idx = 0
        /\ run[r].exit = "ok" /\ run[q].exit = "status1"
        /\ run[r].buf # run[q].buf /\ run[q].buf # Empty
        /\ EntryAt(entries, RunNb, 0).output_claude = run[r].buf
        /\ EntryAt(entries, RunNb, 0).output = run[q].buf
        /\ EntryRow(RunNb, 1, "q") \in entries

\* C20 (as claimed): each of gemini, claude and aider has its own column, so
\* that the outputs stored by runs of two different models for one entry are
\* both in the entry, in two different columns.
C20_OwnColumnPerModel ==
    \A r, q \in Runs :
        (/\ run[r].pc = "done" /\ run[q].pc = "done"
         /\ run[r].model \in Agents /\ run[q].model \in Agents
         /\ run[r].model # run[q].model
         /\ run[r].exit \in {"ok", "status1"} /\ run[q].exit \in {"ok", "status1"}
         /\ ~run[r].ctxDone /\ ~run[q].ctxDone
         /\ run[r].nb = run[q].nb /\ run[r].idx = run[q].idx) =>
            \E c1, c2 \in {"output", "output_claude"} :
                /\ c1 # c2
                /\ EntryAt(entries, run[r].nb, run[r].idx)[c1] = run[r].buf
                /\ EntryAt(entries, run[r].nb, run[r].idx)[c2] = run[q].buf

-----------------------------------------------------------------------------
(* Claims about tryHandler                                                 *)

\* The call got past ensureRepoCloned's check of the marker.
PastEnsure(c) == call[c].pc \notin {"idle", "ensure"}

\* Calls 1 and 2 name the same repository.
SameRepo == call[1].org = call[2].org /\ call[1].repo = call[2].repo

RowOf(c) ==
    [id |-> call[c].id, org |-> call[c].org, repo |-> call[c].repo,
     branch |-> WorktreeName(call[c].id), worktree |-> WorktreeName(call[c].id),
     commit_sha |-> disk.head[Dest(c)].commit_sha]

\* The worktree of call c is on the disk.
WorktreeCreated(c) ==
    worktreeDirPath(call[c].org, call[c].repo, WorktreeName(call[c].id))
        \in disk.worktrees

\* A notebook row is written only by a call whose worktree is on the disk and
\* whose branch and commit were read back.
WrittenAfterReadBack ==
    notebooks' # notebooks =>
        \E c \in TryCalls :
            /\ call[c].pc = "insert"
            /\ WorktreeCreated(c)
            /\ call[c].branch = WorktreeName(call[c].id)
            /\ call[c].sha = disk.head[Dest(c)].commit_sha
            /\ notebooks' = notebooks \cup {RowOf(c)}

\* A call whose worktree creation or read-back failed answered an error and
\* has no notebook row; every notebook row has its worktree.
NoRowForFailedAttempt ==
    /\ \A c \in TryCalls :
          call[c].failed \in {"worktree", "readback"} =>
              /\ call[c].pc = "done"
              /\ call[c].msg # ""
              /\ call[c].location = Empty
              /\ ~NotebookFound(call[c].id)
    /\ \A n \in notebooks :
          worktreeDirPath(n.org, n.repo, n.worktree) \in disk.worktrees

\* C13: a notebook row is written to the store only after its worktree was
\* created and its branch and commit were read back; when the worktree
\* creation or the read-back fails, the call answers an error and no notebook
\* row exists for that attempt.
C13_RowAfterWorktree == []NoRowForFailedAttempt /\ [][WrittenAfterReadBack]_vars

\* One call failed at the read-back, its worktree is on the disk and it has no
\* row; the other call wrote its row.
C13_Witness ==
    /\ call[1].failed = "readback"
    /\ WorktreeCreated(1)
    /\ ~NotebookFound(call[1].id)
    /\ call[2].location # Empty
    /\ notebooks = {RowOf(2)}

-----------------------------------------------------------------------------
(* Claims about the checks of the inputs                                   *)

\* The /try inputs that are no org/repo and no GitHub URL of a repository:
\* three parts, blank, a repo with a "?", another host, a URL without a repo.
MalformedInputs ==
    {<<"o", "/", "r", "/", "x">>,
     <<" ">>,
     <<"o", "/", "r", "?">>,
     <<"h", "t", "t", "p", ":", "/", "/", "g", "i", "t", "l", "a", "b", ".", "c", "o", "m", "/", "o", "/", "r">>,
     <<"h", "t", "t", "p", "s", ":", "/", "/", "g", "i", "t", "h", "u", "b", ".", "c", "o", "m", "/", "o">>}

\* The /try request of the step carries a malformed input.
MalformedTry(c) == call[c].pc = "idle" /\ call'[c].input \in MalformedInputs

\* The /prompt request of the step carries a notebook id that is no safe token
\* or a prompt that is empty when trimmed.
MalformedPrompt(p) ==
    /\ app[p].pc = "idle"
    /\ app'[p].pc # "idle"
    /\ ~isSafeToken(app'[p].nb) \/ app'[p].prompt = Empty

\* The /run request of the step carries a notebook id that is no safe token or
\* an index that is no number.
MalformedRun(r) ==
    /\ run[r].pc = "idle"
    /\ run'[r].pc # "idle"
    /\ \/ ~isSafeToken(TrimSpace(run'[r].req[1]))
       \/ ~AtoiOk(TrimSpace(run'[r].req[2]))

\* A request with a malformed input is answered in the step that receives it,
\* and the step changes neither the store nor the disk.
RejectedAtOnce ==
    /\ \A c \in TryCalls :
          MalformedTry(c) =>
              /\ call'[c].pc = "done"
              /\ call'[c].failed = "input"
              /\ call'[c].msg # ""
              /\ call'[c].attempts = 0 /\ call'[c].removes = 0
              /\ call'[c].id = Empty /\ call'[c].location = Empty
              /\ UNCHANGED <<notebooks, entries, clones, disk>>
    /\ \A p \in Appenders :
          MalformedPrompt(p) =>
              /\ app'[p].pc = "done"
              /\ app'[p].rejected
              /\ UNCHANGED <<notebooks, entries, ncalls>>
    /\ \A r \in Runs :
          MalformedRun(r) =>
              /\ run'[r].pc = "done"
              /\ run'[r].status = 400
              /\ run'[r].spawned = 0
              /\ run'[r].w = <<>>
              /\ UNCHANGED <<notebooks, entries>>

\* C18: input errors are rejected before any side effect: a malformed input to
\* /try causes no clone, no worktree and no store write; a notebook id that is
\* no safe token, or a prompt that is empty when trimmed, sent to /prompt
\* appends no entry; a malformed notebook id or index sent to /run spawns no
\* process and writes nothing.
C18_RejectedBeforeSideEffect == [][RejectedAtOnce]_vars

\* Each of the three handlers has rejected a request; no clone, no worktree
\* and no row was made.
C18_Witness ==
    /\ call[1].failed = "input"
    /\ app["a1"].pc = "done" /\ app["a1"].rejected
    /\ run[1].pc = "done" /\ run[1].status = 400 /\ run[1].req # <<>>
    /\ ~isSafeToken(TrimSpace(run[1].req[1])) \/ ~AtoiOk(TrimSpace(run[1].req[2]))
    /\ notebooks = {} /\ entries = {} /\ clones = {}
    /\ disk.worktrees = {}

\* The calls that wrote a clone row for the pair.
Recorders(org, repo) ==
    {c \in TryCalls :
        call[c].org = org /\ call[c].repo = repo /\ call[c].recorded # {}}

\* The rows of table clones for the pair.
CloneRowsOf(org, repo) == {c \in clones : c.org = org /\ c.repo = repo}

\* C21: after any sequence of recordClone calls there is at most one clone row
\* for each (org, repo) pair, and it holds the branch and commit the most
\* recent successful recordClone of the pair read; a pair without a
\* successful recordClone has no row.
C21_OneRowLatestClone ==
    \A p \in Repos :
        LET rec == Recorders(p[1], p[2])
        IN  CloneRowsOf(p[1], p[2]) =
                IF rec = {} THEN {} ELSE call[SetMax(rec)].recorded

\* Two recordClone calls for one pair read different values (the clone was
\* removed and made again in between); the row holds the second one's.
C21_Witness ==
    /\ Recorders(<<"o">>, <<"r">>) = {1, 2}
    /\ call[1].recorded # call[2].recorded
    /\ clones = call[2].recorded

\* The first n clone attempts.
FirstAttempts(n) == SubSeq(CloneAttempts, 1, n)

\* What a call's cloneRepo has done so far: the attempts it ran are the first
\* ones of main, master, default, in this order; when it returned nil the last
\* attempt it ran is the one that made the clone; when it returned an error
\* all three were run and the error carries the output of the third.
AttemptsInOrder(c) ==
    /\ call[c].tried = FirstAttempts(Len(call[c].tried))
    /\ call[c].ensured = "cloned" =>
          /\ call[c].tried # <<>>
          /\ call[c].cloneErr = Empty
    /\ call[c].ensured = "failed" =>
          /\ call[c].tried = CloneAttempts
          /\ call[c].cloneErr = CloneOutput(Len(CloneAttempts))
          /\ call[c].cloned = 0
    /\ call[c].cloneErr # Empty => call[c].ensured = "failed"

\* Once cloneRepo has returned, the call runs no further attempt.
NoAttemptAfterReturn ==
    \A c \in TryCalls :
        call[c].ensured # "none" => call'[c].tried = call[c].tried

\* C22: cloneRepo tries branch main, then branch master, then the default
\* branch; it stops at the first attempt that succeeds, and it returns an
\* error only when all three have failed, the error carrying the output of
\* the third attempt.
C22_AttemptsInOrder ==
    [](\A c \in TryCalls : AttemptsInOrder(c)) /\ [][NoAttemptAfterReturn]_vars

\* One call cloned at its second attempt and ran no third; the other ran all
\* three and answered the third one's output.
C22_Witness ==
    /\ call[1].ensured = "cloned" /\ call[1].pc = "done"
    /\ call[1].tried = <<T_main, T_master>>
    /\ call[2].ensured = "failed"
    /\ call[2].tried = <<T_main, T_master, Empty>>
    /\ call[2].cloneErr = CloneOutput(3)

-----------------------------------------------------------------------------
(* Claims about parseRepoInput                                             *)

\* The characters A-Z, a-z, 0-9, ".", "_" and "-".
SafeChars ==
    {"A", "B", "C", "D", "E", "F", "G", "H", "I", "J", "K", "L", "M", "N",
     "O", "P", "Q", "R", "S", "T", "U", "V", "W", "X", "Y", "Z",
     "a", "b", "c", "d", "e", "f", "g", "h", "i", "j", "k", "l", "m", "n",
     "o", "p", "q", "r", "s", "t", "u", "v", "w", "x", "y", "z",
     "0", "1", "2", "3", "4", "5", "6", "7", "8", "9", ".", "_", "-"}

\* A non-empty text over the safe characters.
SafeText(s) == s # Empty /\ \A i \in 1 .. Len(s) : s[i] \in SafeChars

\* The call has parsed its input and parseRepoInput returned an error.
ParseFailed(c) == call[c].pc = "done" /\ call[c].failed = "input"

\* The call has parsed its input and parseRepoInput returned no error.
ParseAccepted(c) == call[c].pc = "ensure"

\* C23: when parseRepoInput returns without error, org and repo are non-empty
\* texts over A-Z a-z 0-9 . _ -; an org/repo input one of whose parts is no
\* such text, a URL without two path segments and a URL whose host is not
\* github.com yield an error (and empty org and repo).
C23_ParsedPairIsSafe ==
    /\ ParseAccepted(1) => SafeText(call[1].org) /\ SafeText(call[1].repo)
    /\ ParseFailed(1) =>
          call[1].org = Empty /\ call[1].repo = Empty /\ call[1].msg # ""
    /\ \A a \in Tokens, b \in Tokens, pad \in Pads :
          (/\ call[1].pc # "idle"
           /\ call[1].input = PlainInput(a, b, pad)
           /\ ~SafeText(a) \/ ~SafeText(b))
          => ParseFailed(1)
    /\ \A sc \in {T_http, T_https}, h \in Hosts, a \in Tokens :
          (call[1].pc # "idle" /\ call[1].input = ShortUrlInput(sc, h, a))
          => ParseFailed(1)
    /\ \A sc \in {T_http, T_https}, h \in {h0 \in Hosts : ToLower(h0) # T_githubHost},
          a \in Tokens, b \in Tokens, sf \in {Empty, T_dotGit} :
          (call[1].pc # "idle" /\ call[1].input = UrlInput(sc, h, a, b, sf))
          => ParseFailed(1)

\* A GitHub URL was parsed into its org and repo.
C23_Witness ==
    /\ ParseAccepted(1)
    /\ call[1].input =
          UrlInput(T_https, T_githubHost, <<"o">>, <<"r", ".", "g">>, T_dotGit)
    /\ call[1].org = <<"o">>
    /\ call[1].repo = <<"r", ".", "g">>

-----------------------------------------------------------------------------
(* Claims about the store                                                  *)

\* The entries of a table with the key of entry e.
SameKey(rows, e) ==
    {f \in rows : f.notebook_id = e.notebook_id /\ f.idx = e.idx}

\* A step keeps every notebook row as it is, and keeps every entry under its
\* notebook and index with its prompt; rows are only added.
RowsOnlyAdded ==
    /\ notebooks \subseteq notebooks'
    /\ \A n \in notebooks' \ notebooks : ~NotebookFound(n.id)
    /\ \A e \in entries :
          /\ Cardinality(SameKey(entries', e)) = 1
          /\ \A f \in SameKey(entries', e) : f.prompt = e.prompt
    /\ \A f \in entries' :
          SameKey(entries, f) = {} =>
              f.idx = Cardinality(EntriesOf(f.notebook_id))

\* C24: entries and notebooks are append-only. No step of the server deletes
\* an entry, changes an entry's index or prompt, reorders entries, or updates
\* or deletes a notebook row; of an entry only output, output_claude and
\* intent change after its creation.
C24_AppendOnly == [][RowsOnlyAdded]_vars

\* An entry with its prompt, which has got an output, an output_claude and an
\* intent since it was appended, next to a second entry.
C24_Witness ==
    \E e \in entries, f \in entries :
        /\ e.notebook_id = f.notebook_id
        /\ e.idx = 0 /\ f.idx = 1
        /\ e.prompt = <<"p">>
        /\ e.output # Empty /\ e.output_claude # Empty /\ e.intent # Empty

-----------------------------------------------------------------------------
(* Claims about the paths                                                  *)

\* The call's input was accepted by parseRepoInput.
InputAccepted(c) == call[c].pc # "idle" /\ call[c].failed # "input"

\* The clone path of the call is <base>/clone/<org>/<repo>, two levels below
\* the clone base, and the worktree path of its notebook is below
\* <base>/worktree/<org>/<repo>.
PathsBelowBase(c) ==
    /\ Dest(c) = appDir \o <<T_clone, call[c].org, call[c].repo>>
    /\ call[c].id # Empty =>
          IsBelow(worktreeDirPath(call[c].org, call[c].repo,
                                  WorktreeName(call[c].id)),
                  appDir \o <<T_worktree, call[c].org, call[c].repo>>)

\* The directories that are not below the clone base are as they were when
\* the server started: none was removed or cloned into.
OutsideUntouched ==
    \A d \in ClonePaths :
        ~IsBelow(d, appDir \o <<T_clone>>) => disk.clone[d] = "partial"

\* C25: for every (org, repo) pair the validator accepts, the clone path is
\* <base>/clone/<org>/<repo>, exactly two levels below the clone base, and the
\* worktree path is inside <base>/worktree/<org>/<repo>/; ensureRepoCloned
\* never removes a directory outside the clone base.
C25_PathsInsideBase ==
    /\ \A c \in TryCalls : InputAccepted(c) => PathsBelowBase(c)
    /\ OutsideUntouched

\* The index the call has computed is taken by a row.
IndexTaken(p) ==
    \E e \in entries : e.notebook_id = app[p].nb /\ e.idx = app[p].next

\* The calls that have returned an index and whose caller has not yet gone
\* on return different indices for one notebook.
ReturnedIndexesDiffer ==
    \A p \in Appenders, q \in Appenders :
        (/\ p # q
         /\ app[p].pc = "done" /\ ~app[p].err
         /\ app[q].pc = "done" /\ ~app[q].err
         /\ app[p].nb = app[q].nb)
        => app[p].ret # app[q].ret

\* The step in which a call returns: when its index was taken in between it
\* returns an error and the table is as before; otherwise it returns the
\* index of the row it adds, which no row held. No step removes a row, so an
\* index returned once is never returned again.
ReturnsFreshIndexOrError ==
    /\ entries \subseteq entries'
    /\ \A p \in Appenders :
          (app[p].pc = "read" /\ app'[p].pc = "done") =>
              IF IndexTaken(p)
              THEN app'[p].err /\ entries' = entries
              ELSE /\ ~app'[p].err
                   /\ app'[p].ret = app[p].next
                   /\ entries' = entries \cup
                         {EntryRow(app[p].nb, app[p].next, app[p].prompt)}

\* C26: two appendNotebookEntry calls on one notebook never return the same
\* index, in any interleaving of their reads of the maximum and their
\* inserts; a call whose index was taken by another append in between returns
\* an error and inserts no row.
C26_NoSharedIndex ==
    []ReturnedIndexesDiffer /\ [][ReturnsFreshIndexOrError]_vars

\* Two calls read the same index of a notebook; one returned it, the other
\* returned the error.
C26_Witness ==
    \E p \in Appenders, q \in Appenders :
        /\ app[p].pc = "done" /\ ~app[p].err
        /\ app[q].pc = "done" /\ app[q].err
        /\ app[p].nb = app[q].nb
        /\ app[q].next = app[p].ret

-----------------------------------------------------------------------------
(* Claims about concurrent runs                                            *)

\* Runs c and g are the claude and the gemini dispatch of one entry, and both
\* processes have exited and both handlers have returned.
BothExited(c, g) ==
    /\ run[c].model = T_claude /\ run[g].model = T_gemini
    /\ run[c].pc = "done" /\ run[g].pc = "done"
    /\ run[c].exit \in {"ok", "status1"} /\ run[g].exit \in {"ok", "status1"}
    /\ run[c].nb = run[g].nb /\ run[c].idx = run[g].idx

\* The entry holds claude's output in output_claude and gemini's in output.
BothStored(c, g) ==
    /\ EntryAt(entries, run[c].nb, run[c].idx).output_claude = run[c].buf
    /\ EntryAt(entries, run[g].nb, run[g].idx).output = run[g].buf

\* The write of a claude dispatch leaves every output as it is, the write of
\* a gemini dispatch every output_claude.
WritesOwnColumn ==
    \A r \in FreeRuns :
        (run[r].pc = "waited" /\ run'[r].pc = "done") =>
            \A e \in entries :
                LET f == EntryAt(entries', e.notebook_id, e.idx)
                IN  /\ run[r].model = T_claude => f.output = e.output
                    /\ run[r].model = T_gemini =>
                          f.output_claude = e.output_claude

-----------------------------------------------------------------------------
(* Claims about the response stream                                        *)

\* The markers that report a failed start of a model.
StartMarkers(model) ==
    {StartErrMarker(model, StartErrText(b, model)) : b \in BOOLEAN}

\* The terminal markers of a response of a model.
TerminalMarkers(model) ==
    {DoneMarker} \cup ErrorMarkers(model) \cup StartMarkers(model)

\* The positions of the terminal markers among the writes of a response.
MarkerPositions(r) ==
    {i \in DOMAIN run[r].w : run[r].w[i] \in TerminalMarkers(run[r].model)}

\* The response of a request that passed validation has at most one terminal
\* marker, and it is its last write.
OneMarkerLast ==
    \A r \in FreeRuns :
        run[r].status = 200 =>
            /\ Cardinality(MarkerPositions(r)) <= 1
            /\ MarkerPositions(r) \subseteq {Len(run[r].w)}
            /\ MarkerPositions(r) # {} => run[r].pc = "done"

\* Nothing is written to a response after its terminal marker.
NothingAfterMarker ==
    \A r \in FreeRuns :
        MarkerPositions(r) # {} => run'[r].w = run[r].w

\* C28: the response of a run whose request passed validation carries at most
\* one terminal marker ('[done]', an 'exited with error' marker or a 'failed
\* to start' marker), never a success and an error marker together, and
\* nothing is written to the response after the marker.
C28_OneTerminalMarker == []OneMarkerLast /\ [][NothingAfterMarker]_vars

\* One response ended with the 'exited with error' marker after a chunk,
\* another one with the 'failed to start' marker.
C28_Witness ==
    \E r \in FreeRuns, q \in FreeRuns :
        /\ run[r].status = 200 /\ run[q].status = 200
        /\ Len(run[r].w) = 3
        /\ run[r].w[3] \in ErrorMarkers(run[r].model)
        /\ Len(run[q].w) = 2
        /\ run[q].w[2] \in StartMarkers(run[q].model)

\* The writes of a response that carry the output of the process: those after
\* the banner and before the terminal marker.
OutputWrites(r) ==
    SubSeq(run[r].w, 2,
           IF MarkerPositions(r) = {} THEN Len(run[r].w) ELSE Len(run[r].w) - 1)

\* The process output that was sent to the client.
SentOutput(r) == StreamText(OutputWrites(r))

\* Text p is a prefix of text s.
IsPrefix(p, s) == Len(p) <= Len(s) /\ SubSeq(s, 1, Len(p)) = p

\* The output sent so far is a prefix of the buffer, and the buffer holds
\* neither the banner nor a terminal marker.
SentIsPrefixOfBuffer ==
    \A r \in FreeRuns :
        run[r].status = 200 =>
            /\ IsPrefix(SentOutput(r), run[r].buf)
            /\ ~Contains(run[r].buf, Banner(run[r].model))
            /\ \A m \in TerminalMarkers(run[r].model) : ~Contains(run[r].buf, m)

\* The buffer grows only by a chunk the running process writes, and what a
\* handler stores in an output column is its buffer.
BufferOnlyFromProcess ==
    \A r \in FreeRuns :
        /\ run'[r].buf # run[r].buf =>
              /\ run[r].pc = "running"
              /\ \E chunk \in Chunks(run[r].model) :
                    run'[r].buf = run[r].buf \o chunk
        /\ (run[r].pc = "waited" /\ run'[r].pc = "done") =>
              \A e \in entries :
                  LET f == EntryAt(entries', e.notebook_id, e.idx)
                  IN  /\ f.output \in {e.output, run[r].buf}
                      /\ f.output_claude \in {e.output_claude, run[r].buf}

\* C29: at every moment of a run the process output already sent to the
\* client is a prefix of the accumulation buffer (a chunk reaches the buffer
\* no later than the response), and the buffer, hence the stored output,
\* holds only what the process wrote: never the banner, never a terminal
\* marker.
C29_SentPrefixOfBuffer ==
    []SentIsPrefixOfBuffer /\ [][BufferOnlyFromProcess]_vars

\* A chunk is in the buffer and not yet in the response, after an earlier
\* chunk that is in both.
C29_Witness ==
    \E r \in FreeRuns :
        /\ run[r].pc = "writing"
        /\ SentOutput(r) # Empty
        /\ run[r].buf = SentOutput(r) \o run[r].pending
        /\ Len(run[r].w) = 2

\* The step is the failed start of run r.
StartFails(r) == run[r].pc = "start" /\ run'[r].exit = "nostart"

\* The failed start of a run writes the 'failed to start' marker as the last
\* write of the response and leaves the store as it is; the request's first
\* step, up to the banner, leaves the store as it is too.
FailedStartLeavesStore ==
    \A r \in FreeRuns :
        /\ StartFails(r) =>
              /\ run'[r].pc = "done"
              /\ \E m \in StartMarkers(run[r].model) :
                    run'[r].w = Append(run[r].w, m)
              /\ run'[r].spawned = 0
              /\ run'[r].buf = Empty
              /\ entries' = entries
        /\ (run[r].pc = "idle" /\ run'[r].pc # "idle") => entries' = entries

\* C30: when the agent process cannot be started (the binary is missing, for
\* one), a terminal error marker is written to the response and the entry's
\* stored output, output_claude and intent are left exactly as they were
\* before the run.
C30_FailedStartLeavesStore == [][FailedStartLeavesStore]_vars

\* The entry holds the output of an earlier run; the start of a later run of
\* the same model on it failed for the missing binary, and the output is
\* still there.
C30_Witness ==
    \E r \in FreeRuns, q \in FreeRuns :
        /\ run[q].pc = "done" /\ run[q].exit = "ok" /\ run[q].buf # Empty
        /\ run[r].pc = "done" /\ run[r].exit = "nostart" /\ ~run[r].ctxDone
        /\ run[r].model = run[q].model
        /\ run[r].nb = run[q].nb /\ run[r].idx = run[q].idx
        /\ run[r].w[Len(run[r].w)] =
              StartErrMarker(run[r].model, StartErrText(FALSE, run[r].model))
        /\ EntryAt(entries, run[q].nb, run[q].idx)[ColumnFor(run[q].model)]
              = run[q].buf

-----------------------------------------------------------------------------
(* Claims about the notebook after a run                                   *)

\* The handler of the first run has returned after it got to the process:
\* the run completed, failed, failed to start or was cancelled.
TerminalOutcome == run[FirstRun].pc = "done" /\ run[FirstRun].status = 200

\* An append made after the first run succeeds and returns the next index of
\* the notebook, and the new entry is stored under it.
AppendAfterRunSucceeds ==
    [][(/\ TerminalOutcome
        /\ app["a1"].pc = "read"
        /\ app'["a1"].pc = "done")
       => /\ ~app'["a1"].err
          /\ app'["a1"].ret = ncalls[app["a1"].nb] - 1
          /\ EntryRow(app["a1"].nb, app'["a1"].ret, app["a1"].prompt)
                \in entries']_vars

\* A /run request made after the first run for an entry of the notebook is
\* served up to the start of the process.
DispatchAfterRunAccepted ==
    [][(/\ TerminalOutcome
        /\ run[SecondRun].pc = "idle"
        /\ run'[SecondRun].pc # "idle"
        /\ PromptFound(RunNb, Atoi(run'[SecondRun].req[2])))
       => /\ run'[SecondRun].pc = "start"
          /\ run'[SecondRun].nb = RunNb
          /\ run'[SecondRun].idx = Atoi(run'[SecondRun].req[2])]_vars

\* The process of that request can be started.
ProcessCanStart ==
    (/\ TerminalOutcome
     /\ run[SecondRun].pc = "start"
     /\ ~run[SecondRun].ctxDone)
    => ENABLED StartOk(SecondRun)

\* C31: after any terminal outcome of a run on a notebook (completed, failed,
\* failed to start, cancelled) the notebook remains usable: the next
\* appendNotebookEntry on it succeeds with the next index, and a dispatch on
\* the new entry is accepted and can start a process.
C31_NotebookStaysUsable ==
    /\ AppendAfterRunSucceeds
    /\ DispatchAfterRunAccepted
    /\ []ProcessCanStart

\* The first request was cancelled and its process killed; an entry was
\* appended after it under the index 2 and the process of a run on that entry
\* is running.
C31_Witness ==
    /\ TerminalOutcome
    /\ run[FirstRun].ctxDone
    /\ run[FirstRun].exit = "killed"
    /\ \E e \in entries : e.notebook_id = RunNb /\ e.idx = 2
    /\ run[SecondRun].pc = "running"
    /\ run[SecondRun].idx = 2

-----------------------------------------------------------------------------
(* Claims about the intent                                                 *)

\* The intent column of the entry (nb, idx), in the given rows.
IntentAt(rows, nb, idx) == EntryAt(rows, nb, idx).intent

\* The step changes the intent of some entry.
IntentChanges ==
    \E e \in entries :
       IntentAt(entries', e.notebook_id, e.idx) # e.intent

\* The step is the return of cmd.Wait() being handled for a router process
\* that exited with status 0, in a request that is not cancelled, and it
\* changes no intent but that of the request's entry.
SuccessfulRouterStep(r) ==
    /\ run[r].pc = "waited"
    /\ run'[r].pc = "done"
    /\ run[r].model = T_router
    /\ run[r].exit = "ok"
    /\ ~run[r].ctxDone
    /\ \A e \in entries :
          IntentAt(entries', e.notebook_id, e.idx) # e.intent
             => e.notebook_id = run[r].nb /\ e.idx = run[r].idx

\* The step ends a router request whose process failed, did not start or
\* was killed, or whose context is cancelled.
RouterEndsWithoutSuccess(r) ==
    /\ run[r].model = T_router
    /\ run[r].pc \in {"start", "waited"}
    /\ run'[r].pc = "done"
    /\ run'[r].exit # "ok" \/ run'[r].ctxDone

\* C32: a router process that exits non-zero, fails to start or is cancelled
\* leaves the intent of its entry as it was; an intent is written only by
\* the handler of a router process that exited successfully.
C32_IntentOnlyAfterRouterSuccess ==
    [][/\ IntentChanges => \E r \in Runs : SuccessfulRouterStep(r)
       /\ \A r \in Runs :
             RouterEndsWithoutSuccess(r)
                => IntentAt(entries', run[r].nb, run[r].idx)
                      = IntentAt(entries, run[r].nb, run[r].idx)]_vars

\* A first router run set the intent of the entry to edit; a second router
\* process wrote "question", exited with status 1, and the intent is still
\* edit.
C32_Witness ==
    \E r, q \in Runs :
       /\ run[r].pc = "done" /\ run[r].model = T_router
       /\ run[r].exit = "ok" /\ run[r].intent = T_edit
       /\ run[q].pc = "done" /\ run[q].model = T_router
       /\ run[q].exit = "status1" /\ run[q].buf = T_question
       /\ run[q].nb = run[r].nb /\ run[q].idx = run[r].idx
       /\ IntentAt(entries, run[q].nb, run[q].idx) = T_edit

-----------------------------------------------------------------------------
(* Claims about ensureRepoCloned                                           *)

\* ensureRepoCloned has looked for the marker and not found it: the step
\* leaves no path at the destination and hands over to the first clone
\* attempt.
RemovesUnmarkedPath ==
    \A c \in TryCalls :
       (call[c].pc = "remove" /\ call'[c].pc # "remove")
          => /\ ~MarkerFound(Dest(c))
             /\ disk'.clone[Dest(c)] = "absent"
             /\ call'[c].pc = "clone"
             /\ call'[c].attempt = 1
             /\ call'[c].attempts = 0

\* The step ends a clone attempt of call c with an error.
AttemptFails(c) ==
    /\ call[c].pc \in {"clone", "cloning"}
    /\ call'[c].attempts = call[c].attempts + 1 \/ call[c].pc = "cloning"
    /\ call'[c].pc \in {"clone", "done"}

\* A failed attempt leaves no destination; the next attempt, or the answer
\* of the failed call, follows it.
FailedAttemptRemoves ==
    \A c \in TryCalls :
       AttemptFails(c)
          => /\ disk'.clone[Dest(c)] = "absent"
             /\ call'[c].ensured = "failed" <=> call[c].attempt = Len(CloneAttempts)

EnsureReturnsNil(c) ==
    /\ call[c].pc \in {"ensure", "cloning"}
    /\ call'[c].pc = "record"

\* Whenever ensureRepoCloned returns nil, the clone at the destination is
\* complete.
ReturnsOnCompleteClone ==
    \A c \in TryCalls :
       EnsureReturnsNil(c) => disk'.clone[Dest(c)] = "cloned"

\* No step of a handler takes a complete clone away.
CompleteCloneStays ==
    \A d \in ClonePaths :
       (disk.clone[d] = "cloned" /\ call' # call) => disk'.clone[d] = "cloned"

\* C34: under concurrent ensureRepoCloned calls for one (org, repo), a call
\* that returns success does so with a complete clone at the path: none
\* reports "already cloned" on a clone another call is still populating, and
\* no call's cleanup removes a clone another call has completed.
C34_ConcurrentEnsureIsSafe ==
    [][ReturnsOnCompleteClone /\ CompleteCloneStays]_vars

-----------------------------------------------------------------------------
(* Claims about the model of a run request                                 *)

\* The step serves a /run request up to its rejection or its banner.
Arrives(r) == run[r].pc = "idle" /\ run'[r].pc # "idle"

\* The model the request of handler state h names, blanks trimmed.
NamedModel(h) == TrimSpace(h.req[3])

\* A request whose nb and idx pass the checks and whose model is none of the
\* four is answered 400 at once: no read of the store, no process, no write.
UnknownModelRejected ==
    \A r \in Runs :
       (/\ Arrives(r)
        /\ NamedModel(run'[r]) \notin Models \cup {Empty}
        /\ AtoiOk(TrimSpace(run'[r].req[2]))
        /\ isSafeToken(TrimSpace(run'[r].req[1])))
          => /\ run'[r].pc = "done"
             /\ run'[r].status = 400
             /\ run'[r].queries = 0
             /\ run'[r].spawned = 0
             /\ run'[r].w = <<>>
             /\ entries' = entries

\* A request without a model is served as the same request with the model
\* gemini.
EmptyModelIsGemini ==
    \A r \in Runs :
       (Arrives(r) /\ NamedModel(run'[r]) = Empty)
          => /\ run'[r] = [Accepted(run'[r].req[1], run'[r].req[2], T_gemini)
                             EXCEPT !.req = run'[r].req]
             /\ run'[r].pc = "start" => run'[r].model = T_gemini

\* No process is ever started for a model outside the set.
OnlyKnownModelsSpawn ==
    \A r \in Runs : run[r].spawned > 0 => run[r].model \in Models

\* C35: a run request whose model is outside {gemini, claude, router, aider}
\* is rejected with a client error before any process is spawned and before
\* any access to the store; an empty model name is treated as gemini.
C35_ModelFromClosedSet ==
    /\ [][UnknownModelRejected /\ EmptyModelIsGemini]_vars
    /\ []OnlyKnownModelsSpawn

\* A request naming the model gpt for an existing entry was answered 400
\* without a read of the store, and the process of a request without a model
\* was started as gemini.
C35_Witness ==
    \E r, q \in Runs :
       /\ run[r].pc = "done" /\ run[r].status = 400 /\ run[r].queries = 0
       /\ run[r].req = <<RunNb, <<"0">>, <<"g", "p", "t">>>>
       /\ run[q].pc = "running"
       /\ run[q].req[3] = Empty
       /\ run[q].model = T_gemini
       /\ run[q].spawned = 1

-----------------------------------------------------------------------------
(* Claims about loadNotebook                                               *)

\* The ids loadNotebook is asked for: those /try may give a notebook, and
\* one that no notebook has.
LoadedIds == NewIds \cup {<<"z", "9">>}

\* Position i of the list (counted from 0, as the page's range and the idx
\* of a /run request count) holds the entry stored with index i.
PositionIsIndex(id) ==
    LET es == loadNotebook(id).es
    IN  /\ Len(es) = Cardinality(EntriesOf(id))
        /\ \A i \in 0..(Len(es) - 1) :
              /\ PromptFound(id, i)
              /\ es[i + 1] = EntryOf(EntryAt(entries, id, i))

\* C36: loadNotebook returns an error for an id without a notebook row; for
\* a notebook it returns the entries in ascending order of their index, the
\* entry at position i being the one stored with index i.
C36_LoadNotebookByPosition ==
    \A id \in LoadedIds :
       LET loaded == loadNotebook(id)
       IN  IF \E n \in notebooks : n.id = id
           THEN ~loaded.err /\ PositionIsIndex(id)
           ELSE loaded.err /\ loaded.es = <<>>

\* A notebook has two entries, the first with the output of gemini and the
\* intent the router gave it, the second with neither; loadNotebook lists
\* them in that order, and the id no notebook has gets the error.
C36_Witness ==
    \E id \in NewIds :
       /\ Cardinality(EntriesOf(id)) = 2
       /\ EntryAt(entries, id, 0).output = <<"o", "k">>
       /\ EntryAt(entries, id, 0).intent = T_edit
       /\ loadNotebook(id).es[1].Output = <<"o", "k">>
       /\ loadNotebook(id).es[1].Intent = T_edit
       /\ loadNotebook(id).es[2].Output = Empty
       /\ loadNotebook(id).es[2].Intent = Empty
       /\ \E other \in LoadedIds : loadNotebook(other).err

-----------------------------------------------------------------------------
(* Claims about the worktrees of the notebooks                             *)

\* The worktree directory of a notebook row.
WorktreeOf(n) == worktreeDirPath(n.org, n.repo, n.worktree)

\* Worktree name and branch of a row are made from its id, and the worktree
\* is on the disk.
WorktreeFromId ==
    \A n \in notebooks :
       /\ n.worktree = WorktreeName(n.id)
       /\ n.branch = WorktreeName(n.id)
       /\ WorktreeOf(n) \in disk.worktrees

\* Two different rows have different ids, worktree names, branches and
\* worktree directories.
RowsShareNothing ==
    \A n, k \in notebooks :
       n # k => /\ n.id # k.id
                /\ n.worktree # k.worktree
                /\ n.branch # k.branch
                /\ WorktreeOf(n) # WorktreeOf(k)

\* createNotebook of call c was given the id of a notebook that exists.
IdCollides(c) ==
    /\ call[c].pc \in {"readback", "insert"}
    /\ NotebookIdTaken(call[c].id)

\* A createNotebook whose id collides fails and writes no row; the same holds
\* for a worktree add that meets an existing worktree.
CollisionFails ==
    \A c \in TryCalls :
       /\ (IdCollides(c) /\ call'[c].pc = "done")
             => call'[c].failed # "none" /\ notebooks' = notebooks
       /\ (/\ call[c].pc = "create" /\ call'[c].pc # "create"
           /\ WorktreeExists(call[c].org, call[c].repo,
                             WorktreeName(call'[c].id)))
             => /\ call'[c].pc = "done" /\ call'[c].failed = "worktree"
                /\ notebooks' = notebooks /\ disk' = disk

\* C37: no two notebook rows share a worktree: every createNotebook makes
\* the worktree name and branch from the new id, notebooks of one (org,
\* repo) have pairwise distinct worktree paths, and a creation whose id
\* collides fails instead of sharing a worktree.
C37_NoSharedWorktree ==
    /\ [](WorktreeFromId /\ RowsShareNothing)
    /\ [][CollisionFails]_vars

\* Two notebooks of the repository o/r exist, each with its own worktree
\* directory.
C37_Witness ==
    \E n, k \in notebooks :
       /\ n # k
       /\ n.org = k.org /\ n.repo = k.repo
       /\ WorktreeOf(n) # WorktreeOf(k)
       /\ {WorktreeOf(n), WorktreeOf(k)} \subseteq disk.worktrees

-----------------------------------------------------------------------------
(* Claims about the ownership of entries                                   *)

\* C38: every entry row belongs to an existing notebook: /prompt appends an
\* entry only when a notebook row has the given id, and a well-formed id
\* that no notebook has creates no entry.
C38_EntriesHaveNotebook ==
    \A e \in entries : \E n \in notebooks : n.id = e.notebook_id

-----------------------------------------------------------------------------
(* Claims about the clone row of a notebook                                *)

\* C39: whenever /try has created a notebook for (org, repo), a clone row
\* for (org, repo) is in the store: no notebook row is present without the
\* clone row of its repository.
C39_NotebookHasCloneRow ==
    \A n \in notebooks :
       \E k \in clones : k.org = n.org /\ k.repo = n.repo

-----------------------------------------------------------------------------
(* Claims about the two forms of the input                                 *)

\* strings.HasSuffix(s, ".git")
EndsInDotGit(s) ==
    Len(s) >= Len(T_dotGit)
       /\ \A i \in 1..Len(T_dotGit) :
             s[Len(s) - Len(T_dotGit) + i] = T_dotGit[i]

\* The text without its last four characters.
WithoutDotGit(s) == SubSeq(s, 1, Len(s) - Len(T_dotGit))

\* The first request was sent the short form of (a, b), the second one the
\* URL form of the same pair.
BothFormsSent(a, b) ==
    /\ call[1].input = ShortForm(a, b)
    /\ call[2].input = UrlForm(a, b)

\* parseRepoInput accepted the input of call c and returned (a, b).
ParsedAs(c, a, b) ==
    /\ call[c].pc = "ensure"
    /\ call[c].org = a
    /\ call[c].repo = b

\* C40, as amended: for safe tokens org and repo whose repo does not end in
\* ".git", parseRepoInput accepts org/repo and https://github.com/org/repo
\* and returns (org, repo) from both. For a repo that ends in ".git" the
\* short form returns it as it is, the URL form returns it without the
\* suffix, and rejects the input when nothing safe remains.
C40_FormsAgree ==
    \A a \in FormTokens, b \in FormTokens :
       BothFormsSent(a, b)
          => /\ isSafeToken(a) /\ isSafeToken(b)
             /\ ParsedAs(1, a, b)
             /\ IF ~EndsInDotGit(b) THEN ParsedAs(2, a, b)
                ELSE IF isSafeToken(WithoutDotGit(b))
                THEN ParsedAs(2, a, WithoutDotGit(b))
                ELSE call[2].pc = "done" /\ call[2].failed = "input"

\* The short form A-1_/r.g and its URL form were both parsed as
\* (A-1_, r.g).
C40_Witness ==
    /\ BothFormsSent(<<"A", "-", "1", "_">>, <<"r", ".", "g">>)
    /\ ParsedAs(1, <<"A", "-", "1", "_">>, <<"r", ".", "g">>)
    /\ ParsedAs(2, <<"A", "-", "1", "_">>, <<"r", ".", "g">>)

\* C40: for all safe tokens org and repo, parseRepoInput accepts org/repo
\* and https://github.com/org/repo and returns the same pair (org, repo)
\* from both.
C40_FormsAlwaysAgree ==
    \A a \in FormTokens, b \in FormTokens :
       BothFormsSent(a, b) => ParsedAs(1, a, b) /\ ParsedAs(2, a, b)

====
